---- MODULE Spec2Model ----
(***************************************************************************)
(* Durability core of the satellite: segment repairer, segment-health      *)
(* checker, audit verifier, overlay reputation and the storage node's      *)
(* order-limit verification.  Each subsystem has its own specification     *)
(* over the shared variables; a subsystem that a specification does not    *)
(* exercise stays in its idle state.                                       *)
(***************************************************************************)
EXTENDS Integers, Sequences, FiniteSets, TLC

VARIABLES pointer, reliable, rep, runs, env, ver, ovl, ord, chk, cont, other, rv, ec, str, ns, gs, dl, live, cls, snd

vars == <<pointer, reliable, rep, runs, env, ver, ovl, ord, chk, cont, other, rv, ec, str, ns, gs, dl, live, cls, snd>>
\* what the repairer does not touch
notRepair == <<ver, ovl, ord, chk, cont, other, rv, ec, str, ns, gs, dl, live, cls, snd>>
\* what the audit verifier does not touch
notVerify == <<ovl, ord, chk, cont, other, rv, ec, str, ns, gs, dl, live, cls, snd>>
\* what the overlay's reputation updates do not touch
notOverlay == <<pointer, reliable, rep, runs, env, ver, ord, chk, cont, other, rv, ec, str, ns, gs, dl, live, cls, snd>>
\* what the storage node's order verification does not touch
notOrders == <<pointer, reliable, rep, runs, env, ver, ovl, chk, cont, other, rv, ec, str, ns, gs, dl, live, cls, snd>>
\* what the segment-health checker does not touch
notChecker == <<rep, runs, env, ver, ovl, ord, cont, other, rv, ec, str, ns, gs, dl, live, cls, snd>>
\* what Reverify does not touch
notReverify == <<reliable, rep, runs, ver, ovl, ord, chk, ec, str, ns, gs, dl, live, cls, snd>>
\* what the erasure client does not touch
notEC == <<pointer, reliable, rep, runs, env, ver, ovl, ord, chk, cont, other, rv, str, ns, gs, dl, live, cls, snd>>
\* what a stream of orders does not touch
notStream == <<pointer, reliable, rep, runs, env, ver, ovl, ord, chk, cont, other, rv, ec, ns, gs, dl, live, cls, snd>>
\* what the checker's loops over a namespace do not touch
notNs == <<pointer, reliable, rep, runs, env, ver, ovl, ord, chk, cont, other, rv, ec, str, gs, dl, live, cls, snd>>
\* what a share download of the audit verifier does not touch
notGs == <<pointer, reliable, rep, runs, env, ver, ovl, ord, chk, cont, other, rv, ec, str, ns, dl, live, cls, snd>>
\* what a segment download of the uplink does not touch
notDl == <<pointer, reliable, rep, runs, env, ver, ovl, ord, chk, cont, other, rv, ec, str, ns, gs, live, cls, snd>>
\* what the storage node's space accounting does not touch
notLive == <<pointer, reliable, rep, runs, env, ver, ovl, ord, chk, cont, other, rv, ec, str, ns, gs, dl, cls, snd>>
\* what the classification of one segment by checker and repairer does not touch
notCls == <<pointer, reliable, rep, runs, env, ver, ovl, ord, chk, cont, other, rv, ec, str, ns, gs, dl, live, snd>>
\* what the storage node's order sender does not touch
notSnd == <<pointer, reliable, rep, runs, env, ver, ovl, ord, chk, cont, other, rv, ec, str, ns, gs, dl, live, cls>>

(***************************************************************************)
(* Bounds                                                                  *)
(***************************************************************************)
Total == 4          \* n: pieces of a segment
NumNodes == 6       \* storage nodes known to the overlay
MaxDate == 2        \* creation dates an uplink can give the path
MaxRuns == 2       \* Repair calls on the path
MaxEnv == 2         \* events around a repair: node changes, uplink and audit writes
AuditPieces == 3    \* pieces of the audited segment
RevPieces == 2      \* pieces of the segment whose stripe is reverified
EcTotal == 3        \* slots of the limits slice of an erasure client call
MaxAuditEnv == 1    \* writes of others to the pointer during an audit
NumOvNodes == 2     \* nodes with a dossier in the overlay
MaxTime == 4        \* instants of the storage node's clock
MaxAccepts == 2     \* accepted requests counted per serial
MaxChecks == 2      \* segments the checker's observer is handed
MaxUpdates == 2     \* reputation update calls
MaxAmount == 2      \* bytes an order limit allows at most
MaxOrders == 3      \* orders received on one stream
NumPaths == 2       \* paths of the namespace the checker goes through
MaxPasses == 2      \* passes of the health observer
MaxScans == 1       \* runs of the irreparable scanner
ScanLimit == 1      \* records of one page of the irreparable scanner
MaxNsEnv == 1       \* changes to the namespace or its nodes between the loops
MaxShareSize == 3   \* bytes of a share
MaxRate == 3        \* minBytesPerSecond at most
MaxFloor == 2       \* minDownloadTimeout at most
MaxShares == 2      \* GetShare calls
MaxStops == 1       \* nodes that stop during a download
NumSlots == 2       \* places for a piece on the storage node's disk
MaxSize == 2        \* content size of a piece at most
MaxRecalcs == 2     \* RecalculateSpaceUsedLive calls
MaxSpaceEnv == 2    \* pieces written or deleted
NumSats == 2        \* satellites with unsent orders
MaxResponses == 3   \* responses of one settlement stream
BatchSize == 2      \* batchSize: capacity of the requests channel

Nodes == 1..NumNodes
NoNode == 0
PieceNums == 0..(Total - 1)
NoPieces == [i \in PieceNums |-> NoNode]

\* pb.RedundancyScheme: MinReq k, RepairThreshold r, SuccessThreshold s, Total n
Schemes ==
    {[k |-> a, r |-> b, s |-> c, n |-> Total] :
        <<a, b, c>> \in {t \in (1..Total) \X (1..Total) \X (1..Total) :
                            t[1] <= t[2] /\ t[2] <= t[3]}}

\* excessOptimalThreshold, in percent
ExcessPercents == {0, 50}

Min(a, b) == IF a <= b THEN a ELSE b
Max(a, b) == IF a >= b THEN a ELSE b
Ceil(a, b) == (a + b - 1) \div b

\* piece numbers that have a piece in a piece list
PiecesOf(pieces) == {i \in PieceNums : pieces[i] # NoNode}
NodesOf(pieces) == {pieces[i] : i \in PiecesOf(pieces)}
NumPieces(pieces) == Cardinality(PiecesOf(pieces))

(***************************************************************************)
(* Segment repairer                                                        *)
(***************************************************************************)

\* overlay.Cache.GetMissingPieces: the piece numbers whose node is not reliable
GetMissingPieces(pieces, rel) ==
    {i \in PiecesOf(pieces) : pieces[i] \notin rel}

\* metainfo.Service.UpdatePieces: the write happens only on the pointer that
\* still carries the creation date of the reference pointer
UpdatePiecesApplies(cur, ref) ==
    cur.exists /\ cur.date = ref.date

UpdatePieces(cur, ref, toAdd, toRemove) ==
    IF ~UpdatePiecesApplies(cur, ref) THEN cur
    ELSE [cur EXCEPT !.pieces = [i \in PieceNums |->
            IF toAdd[i] # NoNode THEN toAdd[i]
            ELSE IF toRemove[i] # NoNode /\ cur.pieces[i] = toRemove[i] THEN NoNode
            ELSE cur.pieces[i]]]

\* the errors UpdatePieces can hand back: a superseded pointer is no error,
\* for a pointer that is gone the result is not determined
UpdatePiecesErr(cur, ref) == IF cur.exists THEN {FALSE} ELSE BOOLEAN

\* Repair line 237: the pointer read at line 72 is the reference of the update
UpdateRefCurrent(snapshot, current) == current
UpdateRef(snapshot, current) == snapshot

\* Repair line 103: fewer than k+1 healthy pieces cannot be repaired
IsIrreparableK(numHealthy, red) == numHealthy < red.k
IsIrreparable(numHealthy, red) == numHealthy < red.k + 1

\* Repair line 109: above the repair threshold nothing is to be done
RepairNotNeededS(numHealthy, red) == numHealthy > red.s
RepairNotNeeded(numHealthy, red) == numHealthy > red.r

\* Repair lines 121-132: pieces not in lostPiecesSet
HealthyPieces(pieces, missing) == {i \in PiecesOf(pieces) : i \notin missing}
UnhealthyPieces(pieces, missing) == {i \in PiecesOf(pieces) : i \in missing}

\* Repair lines 124-125: the node of every piece of the pointer is excluded
\* from the selection of new nodes
ExcludedNodesUnhealthy(pieces, missing) ==
    {pieces[i] : i \in UnhealthyPieces(pieces, missing)}
ExcludedNodes(pieces, missing) == NodesOf(pieces)

\* Repair lines 145-151
RequestCount(red, excess, numHealthyPieces) ==
    Ceil(red.s * (100 + excess), 100) - numHealthyPieces

\* Repair lines 205-213: the outcome the repair is counted as
RepairOutcomeLt(healthyAfter, red) ==
    IF healthyAfter < red.r THEN "failed"
    ELSE IF healthyAfter < red.s THEN "partial"
    ELSE "full"
RepairOutcome(healthyAfter, red) ==
    IF healthyAfter <= red.r THEN "failed"
    ELSE IF healthyAfter < red.s THEN "partial"
    ELSE "full"

\* Repair lines 221-234: piece numbers of the unhealthy pieces to remove
ToRemoveAll(unhealthy, repaired, healthyAfter, red) == unhealthy
ToRemoveRepaired(unhealthy, repaired, healthyAfter, red) ==
    {i \in unhealthy : i \in repaired}
ToRemove(unhealthy, repaired, healthyAfter, red) ==
    IF healthyAfter >= red.s THEN unhealthy
    ELSE {i \in unhealthy : i \in repaired}

\* Report of the audit verifier
NoReport == [returned |-> FALSE, successes |-> {}, fails |-> {}, offlines |-> {},
             pending |-> {}]
Report(su, fa, of, pe) ==
    [returned |-> TRUE, successes |-> su, fails |-> fa, offlines |-> of, pending |-> pe]

\* the audit verifier before a Verify call
IdleVer ==
    [pc |-> "idle", ptr |-> [date |-> 0, red |-> CHOOSE x \in Schemes : TRUE, pieces |-> NoPieces],
     skip |-> {}, limits |-> {}, shares |-> <<>>,
     ch |-> {}, sent |-> {}, received |-> 0,
     report |-> NoReport, err |-> "none"]

(***************************************************************************)
(* Overlay: node reputation                                                *)
(***************************************************************************)

OvNodes == 1..NumOvNodes
\* a node id the overlay has no dossier for
MissingNode == NumOvNodes + 1

\* alpha and beta are kept in units of 1/Unit, so that lambda * alpha is exact
\* (a call brings a node at most two observations)
Unit == 2 ^ (2 * MaxUpdates)

\* overlay.NodeSelectionConfig: lambda, weight, alpha0, beta0 and DQ of the
\* audit and of the uptime reputation
ReputationConfigs ==
    {[lambdaNum |-> l[1], lambdaDen |-> l[2], weight |-> 1, alpha0 |-> 1, beta0 |-> 0,
      dqNum |-> d[1], dqDen |-> d[2]] :
        l \in {<<1, 1>>, <<1, 2>>, <<0, 1>>}, d \in {<<1, 2>>, <<1, 4>>}}

\* the dossier of a node after Put
NewNodeStats(cfg) ==
    [auditAlpha |-> cfg.alpha0 * Unit, auditBeta |-> cfg.beta0 * Unit,
     uptimeAlpha |-> cfg.alpha0 * Unit, uptimeBeta |-> cfg.beta0 * Unit,
     auditCount |-> 0, uptimeCount |-> 0, disqualified |-> 0]

\* alpha' = lambda * alpha + w * success, beta' = lambda * beta + w * (1 - success)
updateReputation(isSuccess, alpha, beta, cfg) ==
    [alpha |-> (cfg.lambdaNum * alpha) \div cfg.lambdaDen
                   + (IF isSuccess THEN cfg.weight * Unit ELSE 0),
     beta |-> (cfg.lambdaNum * beta) \div cfg.lambdaDen
                   + (IF isSuccess THEN 0 ELSE cfg.weight * Unit)]

\* the score alpha / (alpha + beta) disqualifies when it is not above DQ
IsDisqualifyingBelow(alpha, beta, cfg) ==
    alpha * cfg.dqDen < cfg.dqNum * (alpha + beta)
IsDisqualifying(alpha, beta, cfg) ==
    alpha * cfg.dqDen <= cfg.dqNum * (alpha + beta)

\* the updates leave the dossier of a disqualified node alone
SkipsNever(st) == FALSE
Skips(st) == st.disqualified # 0

\* UpdateStats on a dossier: one audit and one uptime observation
updateStats(st, isUp, auditSuccess, cfg, now) ==
    IF Skips(st) THEN st
    ELSE LET a == updateReputation(auditSuccess, st.auditAlpha, st.auditBeta, cfg)
             u == updateReputation(isUp, st.uptimeAlpha, st.uptimeBeta, cfg)
         IN  [auditAlpha |-> a.alpha, auditBeta |-> a.beta,
              uptimeAlpha |-> u.alpha, uptimeBeta |-> u.beta,
              auditCount |-> st.auditCount + 1, uptimeCount |-> st.uptimeCount + 1,
              disqualified |-> IF \/ IsDisqualifying(a.alpha, a.beta, cfg)
                                  \/ IsDisqualifying(u.alpha, u.beta, cfg)
                               THEN now ELSE 0]

\* UpdateUptime on a dossier: one uptime observation
updateUptime(st, isUp, cfg, now) ==
    IF Skips(st) THEN st
    ELSE LET u == updateReputation(isUp, st.uptimeAlpha, st.uptimeBeta, cfg)
         IN  [st EXCEPT !.uptimeAlpha = u.alpha, !.uptimeBeta = u.beta,
                        !.uptimeCount = st.uptimeCount + 1,
                        !.disqualified = IF IsDisqualifying(u.alpha, u.beta, cfg)
                                         THEN now ELSE 0]

\* BatchUpdateStats: the requests one after the other
RECURSIVE batchUpdateStats(_, _, _, _)
batchUpdateStats(stats, reqs, cfg, now) ==
    IF reqs = <<>> THEN stats
    ELSE LET rq == Head(reqs)
         IN  batchUpdateStats(
                [stats EXCEPT ![rq.node] =
                    updateStats(stats[rq.node], rq.isUp, rq.auditSuccess, cfg, now)],
                Tail(reqs), cfg, now)

UpdateRequests ==
    [node : OvNodes, isUp : BOOLEAN, auditSuccess : BOOLEAN]

\* overlay.NodeSelectionConfig: the observations a node needs to be vetted
AuditCount == 1
UptimeCount == 1

\* Service.IsVetted: enough audit and uptime observations; a disqualified
\* node is not reported vetted
IsVettedByCounts(st) ==
    st.auditCount >= AuditCount /\ st.uptimeCount >= UptimeCount
IsVetted(st) ==
    st.auditCount >= AuditCount /\ st.uptimeCount >= UptimeCount
        /\ st.disqualified = 0

\* the overlay before any node is put
IdleOvl ==
    [cfg |-> CHOOSE c \in ReputationConfigs : TRUE, stats |-> <<>>, now |-> 0,
     last |-> [op |-> "none", targets |-> {}, err |-> FALSE],
     asked |-> [node |-> 0, vetted |-> FALSE]]

(***************************************************************************)
(* Storage node: verification of order limits                              *)
(***************************************************************************)

Serials == {"s1", "s2"}
\* the zero time.Time
ZeroTime == 0

\* piecestore.Config: OrderLimitGracePeriod and ExpirationGracePeriod
OrderConfigs ==
    [OrderLimitGracePeriod : {1, 3}, ExpirationGracePeriod : {0, 2}]

\* the times the satellite signed into an order limit
OrderLimits ==
    [OrderCreation : {1, 2}, OrderExpiration : {2, 3},
     PieceExpiration : {ZeroTime, 3}]

\* what else can be wrong with a submitted limit, in the order of the checks
LimitFaults ==
    {"none", "negative", "othernode", "nosatellite", "nokey", "nosignature",
     "nopiece", "untrusted", "canceled", "badsignature"}

\* Endpoint.IsExpired: expired for longer than the grace period
IsExpiredNoGrace(expiration, now, cfg) ==
    expiration # ZeroTime /\ expiration < now
IsExpired(expiration, now, cfg) ==
    expiration # ZeroTime /\ expiration < now - cfg.ExpirationGracePeriod

\* verifyOrderLimit lines 69-74: the expiration of the serial
SerialExpiration(limit, now, cfg) ==
    IF now + cfg.OrderLimitGracePeriod < limit.OrderExpiration
    THEN now + cfg.OrderLimitGracePeriod
    ELSE limit.OrderExpiration

\* usedSerials.Add fails for a serial that has an entry
UsedSerialsHas(used, serial) == \E e \in used : e.serial = serial

\* usedSerials.DeleteExpired: the entries that expired before now go
DeleteExpiredEntries(used, now) == {e \in used : ~(e.expiration < now)}

\* verifyOrderLimit: the error it returns, "ok" for none
verifyOrderLimit(serial, limit, fault, now, cfg, used) ==
    IF fault = "negative" THEN "order limit is negative"
    ELSE IF fault = "othernode" THEN "order intended for other storagenode"
    ELSE IF IsExpired(limit.PieceExpiration, now, cfg) THEN "piece expired"
    ELSE IF IsExpired(limit.OrderExpiration, now, cfg) THEN "order expired"
    ELSE IF now - limit.OrderCreation > cfg.OrderLimitGracePeriod
    THEN "order created too long ago"
    ELSE IF fault = "nosatellite" THEN "missing satellite id"
    ELSE IF fault = "nokey" THEN "missing uplink public key"
    ELSE IF fault = "nosignature" THEN "missing satellite signature"
    ELSE IF fault = "nopiece" THEN "missing piece id"
    ELSE IF fault = "untrusted" THEN "untrusted"
    ELSE IF fault = "canceled" THEN "context has been canceled"
    ELSE IF fault = "badsignature" THEN "untrusted signature"
    ELSE IF UsedSerialsHas(used, serial) THEN "serial number is already used"
    ELSE "ok"

\* the storage node before any request
IdleOrd ==
    [cfg |-> CHOOSE c \in OrderConfigs : TRUE,
     limits |-> [sn \in Serials |-> CHOOSE l \in OrderLimits : TRUE],
     now |-> 0, used |-> {}, accepted |-> [sn \in Serials |-> 0],
     last |-> [serial |-> "none", result |-> "none"]]

\* the order limit of an open stream: its serial and the bytes it allows
StreamLimits == [SerialNumber : Serials, Limit : 0..MaxAmount]

\* the orders an uplink can send: any serial, any amount
Orders == [SerialNumber : Serials, Amount : (-1)..(MaxAmount + 1)]

\* Endpoint.VerifyOrder: the error it returns, "ok" for none
VerifyOrderAnyAmount(limit, order, largestOrderAmount, signed) ==
    IF order.SerialNumber # limit.SerialNumber
    THEN "order serial number changed during upload"
    ELSE IF order.Amount > limit.Limit THEN "order exceeded allowed amount"
    ELSE IF ~signed THEN "untrusted"
    ELSE "ok"
VerifyOrder(limit, order, largestOrderAmount, signed) ==
    IF order.SerialNumber # limit.SerialNumber
    THEN "order serial number changed during upload"
    ELSE IF order.Amount < largestOrderAmount
    THEN "order contained smaller amount"
    ELSE IF order.Amount > limit.Limit THEN "order exceeded allowed amount"
    ELSE IF ~signed THEN "untrusted"
    ELSE "ok"

\* no stream, and the zero pb.Order
NoOrder == [SerialNumber |-> "none", Amount |-> 0]
IdleStr ==
    [pc |-> "idle", limit |-> CHOOSE l \in StreamLimits : TRUE,
     largestOrder |-> NoOrder, accepted |-> <<>>, received |-> 0,
     order |-> NoOrder, result |-> "none", saved |-> NoOrder]

(***************************************************************************)
(* Segment-health checker                                                  *)
(***************************************************************************)

\* RemoteSegment: a segment is injured with more than k and at most r healthy
\* pieces, unless r = s
IsInjuredNoSuccess(numHealthy, red) ==
    numHealthy > red.k /\ numHealthy <= red.r
IsInjured(numHealthy, red) ==
    numHealthy > red.k /\ numHealthy <= red.r /\ numHealthy < red.s

\* RemoteSegment: a segment is lost with at most k healthy pieces, unless k = r
IsLost(numHealthy, red) ==
    numHealthy <= red.k /\ numHealthy < red.r

\* the store calls that can fail during one RemoteSegment, by the calls it
\* makes for the healthy pieces it counts
CheckerFailures(numHealthy, red) ==
    {"none", "MissingPieces"}
        \cup (IF IsInjured(numHealthy, red) THEN {"Insert", "Delete"} ELSE {})
        \cup (IF IsLost(numHealthy, red) THEN {"IncrementRepairAttempts"} ELSE {})

\* irreparable.DB: no record of the path
NoIrreparable == [attempts |-> 0, lostPieces |-> 0]

\* irreparable.DB.IncrementRepairAttempts: add the record or count one more
\* attempt on the one there is
IncrementRepairAttempts(rec, lostPieces) ==
    [attempts |-> rec.attempts + 1, lostPieces |-> lostPieces]

(***************************************************************************)
(* Segment-health checker over a namespace: observer passes and the        *)
(* irreparable scanner                                                     *)
(***************************************************************************)

Paths == 1..NumPaths

\* the redundancy schemes of the namespace: one piece is enough to rebuild a
\* segment and an upload has to store all pieces
ScanSchemes == {x \in Schemes : x.k = 1 /\ x.r >= 2 /\ x.r < x.s /\ x.s = Total}

\* a segment that has lost one piece to an audit: np pieces, each on a node
\* of its own, off of them on nodes that are not reliable now (one node of
\* each segment is reliable throughout)
Segments == {[exists |-> e, np |-> Total - 1, off |-> o] :
                e \in BOOLEAN, o \in 0..(Total - 2)}

\* irreparable.DB: no record of a path
NoRecord == [present |-> FALSE, attempts |-> 0]

\* queue.RepairQueue.Insert: a path that is queued already gets no second item
InsertAgain(queue, path, lost) ==
    Append(queue, [path |-> path, lost |-> lost])
Insert(queue, path, lost) ==
    IF \E i \in 1..Len(queue) : queue[i].path = path
    THEN queue
    ELSE Append(queue, [path |-> path, lost |-> lost])

\* irreparable.DB.GetLimited: the paths of the first limit records after
\* lastSeenSegmentPath, in the order of the paths
RECURSIVE PathsFrom(_, _, _)
PathsFrom(irrdb, from, limit) ==
    IF from > NumPaths \/ limit = 0 THEN <<>>
    ELSE IF irrdb[from].present
    THEN <<from>> \o PathsFrom(irrdb, from + 1, limit - 1)
    ELSE PathsFrom(irrdb, from + 1, limit)
GetLimitedSkipping(irrdb, limit, lastSeenSegmentPath) ==
    PathsFrom(irrdb, lastSeenSegmentPath + 2, limit)
GetLimited(irrdb, limit, lastSeenSegmentPath) ==
    PathsFrom(irrdb, lastSeenSegmentPath + 1, limit)

\* the store calls that can fail while one segment is classified
HealthFailures(sg, red) == CheckerFailures(sg.np - sg.off, red)

\* the classification of RemoteSegment and updateIrreparableSegmentStatus and
\* the store calls that follow it: the stores afterwards and whether a call
\* failed that makes updateIrreparableSegmentStatus return an error
HealthUpdate(queue, irrdb, path, sg, red, fails) ==
    LET numHealthy == sg.np - sg.off
        same == [queue |-> queue, irrdb |-> irrdb, err |-> FALSE]
    IN  IF fails = "MissingPieces" THEN [same EXCEPT !.err = TRUE]
        ELSE IF IsInjured(numHealthy, red)
        THEN IF sg.off = 0 THEN same
             ELSE IF fails = "Insert" THEN [same EXCEPT !.err = TRUE]
             ELSE [queue |-> Insert(queue, path, sg.off),
                   irrdb |-> IF fails = "Delete" THEN irrdb
                             ELSE [irrdb EXCEPT ![path] = NoRecord],
                   err |-> FALSE]
        ELSE IF IsLost(numHealthy, red)
        THEN IF fails = "IncrementRepairAttempts" THEN [same EXCEPT !.err = TRUE]
             ELSE [same EXCEPT
                     !.irrdb[path] =
                        IF irrdb[path].present
                        THEN [irrdb[path] EXCEPT !.attempts = @ + 1]
                        ELSE [present |-> TRUE, attempts |-> 1]]
        ELSE same

\* time.Second, in the units of a time.Duration of the model
Second == 4

\* the verifier's configuration: minBytesPerSecond (a memory.Size, an int64)
\* and minDownloadTimeout (a time.Duration)
ShareConfigs ==
    {[minBytesPerSecond |-> b, minDownloadTimeout |-> t] :
        b \in (-1)..MaxRate, t \in 0..MaxFloor}

\* a context: with a timeout of its own or as the caller passed it
NoTimeout == [timed |-> FALSE, timeout |-> 0]
WithTimeout(d) == [timed |-> TRUE, timeout |-> d]

\* GetShare's maxTransferTime without the floor of minDownloadTimeout
MaxTransferTimeNoFloor(cfg, shareSize) ==
    (Second * shareSize) \div cfg.minBytesPerSecond
\* GetShare: maxTransferTime, for minBytesPerSecond > 0
MaxTransferTime(cfg, shareSize) ==
    LET t == (Second * shareSize) \div cfg.minBytesPerSecond
    IN  IF t < cfg.minDownloadTimeout THEN cfg.minDownloadTimeout ELSE t

\* GetShare: the context of the dial and of the download
TimedCtx(cfg, shareSize) ==
    IF cfg.minBytesPerSecond > 0
    THEN WithTimeout(MaxTransferTime(cfg, shareSize))
    ELSE NoTimeout

\* the verifier before a share download
IdleGs ==
    [cfg |-> [minBytesPerSecond |-> 0, minDownloadTimeout |-> 0],
     pc |-> "idle", shareSize |-> 0, timedCtx |-> NoTimeout,
     calls |-> 0, ret |-> "none"]

\* CalcNeededNodes without the required count
CalcNeededNodesExtra(rs) ==
    LET e == IF rs.s > 0 THEN ((rs.n - rs.s) * rs.k) \div rs.s ELSE 1
        extra == IF rs.s > 0 /\ e = 0 THEN 1 ELSE e
    IN  IF extra > rs.n THEN rs.n ELSE extra
\* CalcNeededNodes: t = k + (n - o) k / o, at least one extra, at most n
CalcNeededNodes(rs) ==
    LET e == IF rs.s > 0 THEN ((rs.n - rs.s) * rs.k) \div rs.s ELSE 1
        extra == IF rs.s > 0 /\ e = 0 THEN 1 ELSE e
        needed == rs.k + extra
    IN  IF needed > rs.n THEN rs.n ELSE needed

\* segmentStore.Get: the sets of limits the loop over rand.Perm can select
\* out of the non-nil limits: it stops when needed reaches zero
Selections(limits, needed) ==
    {sel \in SUBSET limits :
        Cardinality(sel) = Min(Max(needed, 1), Cardinality(limits))}

\* ecClient.Get's checks of the limits slice, of length n
EcGetErr(selected, es) ==
    IF Cardinality(selected) < es.k THEN "error" ELSE "none"

\* the uplink before a download
IdleDl ==
    [red |-> CHOOSE x \in Schemes : TRUE, online |-> {}, stopped |-> {},
     pc |-> "idle", limits |-> {}, selected |-> {}, result |-> "none"]

\* Go's integer division, which truncates toward zero
GoDiv(a, b) == IF a >= 0 THEN a \div b ELSE -((-a) \div b)

\* the blobs of the storage node: the content size of the piece in each
\* slot, 0 when the slot holds no piece
Slots == 1..NumSlots
Disks == [Slots -> 0..MaxSize]
RECURSIVE SumTo(_, _)
SumTo(disk, i) == IF i = 0 THEN 0 ELSE disk[i] + SumTo(disk, i - 1)
\* SpaceUsedForPiecesAndBySatellitesSlow on a disk nobody writes to
SpaceUsedSlow(disk) == SumTo(disk, NumSlots)

\* estimateRecalculation
estimateRecalculation(newSpaceUsedTotal, spaceUsedWhenIterationStarted, spaceUsedWhenIterationEnded) ==
    IF newSpaceUsedTotal = spaceUsedWhenIterationEnded
    THEN newSpaceUsedTotal
    ELSE LET spaceUsedDeltaDuringIteration ==
                spaceUsedWhenIterationStarted - spaceUsedWhenIterationEnded
         IN  newSpaceUsedTotal + GoDiv(spaceUsedDeltaDuringIteration, 2)

NoEstimate ==
    [done |-> FALSE, new |-> 0, started |-> 0, ended |-> 0, saved |-> 0]

\* the piece store before its disk is known
IdleLive ==
    [disk |-> [i \in Slots |-> 0], totalUsed |-> 0, pc |-> "idle",
     started |-> 0, next |-> 1, sum |-> 0, recalcs |-> 0, envs |-> 0,
     last |-> NoEstimate]

\* checkerObserver.RemoteSegment: what the observer does with a segment of
\* numHealthy healthy and numMissing missing pieces
CheckerVerdict(numHealthy, numMissing, red) ==
    IF IsInjured(numHealthy, red)
    THEN IF numMissing = 0 THEN "dropped" ELSE "enqueued"
    ELSE IF IsLost(numHealthy, red) THEN "irreparable" ELSE "none"

\* Repair's verdict with k in place of k + 1
RepairerVerdictK(numHealthy, red) ==
    IF IsIrreparableK(numHealthy, red) THEN "irreparable"
    ELSE IF RepairNotNeeded(numHealthy, red) THEN "not needed" ELSE "repairs"
\* SegmentRepairer.Repair: what Repair does with the segment after counting
\* its healthy pieces
RepairerVerdict(numHealthy, red) ==
    IF IsIrreparable(numHealthy, red) THEN "irreparable"
    ELSE IF RepairNotNeeded(numHealthy, red) THEN "not needed" ELSE "repairs"

\* a segment nobody has looked at
IdleCls ==
    [red |-> CHOOSE x \in Schemes : TRUE, numPieces |-> 0, numMissing |-> 0,
     checker |-> "unseen", repairer |-> "unseen"]

\* the satellites the storage node may hold unsent orders for
Sats == 1..NumSats

\* a satellite without unsent orders has no Settle goroutine
NoSettle == [pc |-> "none", left |-> 0]

\* handleBatches without the deferred loop that empties the channel
HandlerReturnsNoDrain(closed, len) == "done"
\* handleBatches returns: its deferred function receives from requests until
\* the channel is closed and empty
HandlerReturns(closed, len) ==
    IF closed /\ len = 0 THEN "done" ELSE "drain"

\* the sender between two cycles
IdleSnd ==
    [main |-> "idle", settle |-> [s \in Sats |-> NoSettle],
     requests |-> [len |-> 0, closed |-> FALSE],
     handler |-> [pc |-> "none", buffer |-> 0, err |-> FALSE],
     sent |-> 0]

\* the checker before its loops start
IdleNs ==
    [red |-> CHOOSE x \in ScanSchemes : TRUE,
     seg |-> [p \in Paths |-> [exists |-> FALSE, np |-> Total, off |-> 0]],
     queue |-> <<>>, irrdb |-> [p \in Paths |-> NoRecord], envs |-> 0,
     pass |-> [pc |-> "idle", next |-> 0, runs |-> 0,
               failed |-> FALSE, stable |-> FALSE, past |-> FALSE],
     scan |-> [pc |-> "idle", last |-> 0, page |-> <<>>, visited |-> {},
               kept |-> {}, errors |-> 0, runs |-> 0,
               result |-> "none", stable |-> FALSE, after |-> FALSE]]

\* the checker before the metainfo loop hands it a segment
IdleChk ==
    [queue |-> {}, irrdb |-> NoIrreparable, checks |-> 0,
     last |-> [numPieces |-> 0, numMissing |-> 0, fails |-> "none", calls |-> {},
               irrBefore |-> 0, ret |-> "none"]]

\* the repairer before a Repair call
IdleRep ==
    [pc |-> "idle", ptr |-> [date |-> 0, red |-> CHOOSE x \in Schemes : TRUE, pieces |-> NoPieces],
     healthy |-> {}, unhealthy |-> {}, excess |-> 0,
     putLimits |-> NoPieces, successful |-> {},
     result |-> "none", outcome |-> "none",
     limits |-> FALSE, downloaded |-> FALSE, uploaded |-> FALSE, wrote |-> FALSE,
     cancelled |-> FALSE, stored |-> {}, writes |-> 0]

InitPieces == [i \in PieceNums |-> i + 1]

\* containment: the pending audit of a node names the path of its segment;
\* date is the creationDate that segment had when the record was made
NoPending == [present |-> FALSE, path |-> "none", date |-> 0]
IdleCont == [nd \in Nodes |-> NoPending]

\* the pointer at a second path of the metainfo
IdleOther ==
    [exists |-> FALSE, remote |-> TRUE, date |-> 0, red |-> CHOOSE x \in Schemes : TRUE,
     pieces |-> NoPieces]

\* no pointer handed to checkIfSegmentDeleted
NilPointer == [date |-> 0, pieces |-> NoPieces]

\* a goroutine of Reverify for a piece, and Reverify before a call
NoRoutine ==
    [pc |-> "none", pending |-> NoPending, limit |-> "none",
     answer |-> "none", status |-> "none",
     oldPtr |-> NilPointer]
IdleRv ==
    [pc |-> "idle", ptr |-> [date |-> 0, pieces |-> NoPieces],
     g |-> [i \in PieceNums |-> NoRoutine], ch |-> {}, received |-> {},
     report |-> NoReport, err |-> FALSE]

\* the slots of the limits slice and the node of the limit in a slot
EcSlots == 0..(EcTotal - 1)
LimitNode(i) == i + 1
\* repair and optimal threshold of the redundancy strategy
EcStrategies ==
    {[r |-> a, s |-> b] : <<a, b>> \in {t \in (1..EcTotal) \X (1..EcTotal) : t[1] <= t[2]}}

\* a goroutine of putPiece for a slot; how: what became of the upload
NoUpload == [pc |-> "none", err |-> FALSE, hash |-> FALSE, how |-> "none"]
IdleEc ==
    [op |-> "none", pc |-> "idle", limits |-> {}, rs |-> [r |-> 1, s |-> 1],
     g |-> [i \in EcSlots |-> NoUpload], infos |-> {}, got |-> {},
     nodes |-> [i \in EcSlots |-> NoNode], hashes |-> {}, count |-> 0,
     psCancelled |-> FALSE, ctxCancelled |-> FALSE, timerFired |-> FALSE,
     result |-> "none", retNodes |-> [i \in EcSlots |-> NoNode], retHashes |-> {}]

\* the segment of the specifications that do not exercise repair or audit
IdlePointer ==
    [exists |-> TRUE, remote |-> TRUE, date |-> 1, red |-> CHOOSE x \in Schemes : TRUE,
     pieces |-> InitPieces]

InitRepair ==
    /\ snd = IdleSnd
    /\ cls = IdleCls
    /\ live = IdleLive
    /\ dl = IdleDl
    /\ gs = IdleGs
    /\ \E red \in Schemes :
           pointer = [exists |-> TRUE, remote |-> TRUE, date |-> 1, red |-> red,
                      pieces |-> InitPieces]
    /\ reliable = Nodes
    /\ \E excess \in ExcessPercents : rep = [IdleRep EXCEPT !.excess = excess]
    /\ runs = 0
    /\ env = 0
    /\ ver = IdleVer
    /\ ovl = IdleOvl
    /\ ord = IdleOrd
    /\ chk = IdleChk
    /\ cont = IdleCont
    /\ other = IdleOther
    /\ rv = IdleRv
    /\ ec = IdleEc
    /\ str = IdleStr
    /\ ns = IdleNs

\* lines 68-90: read the pointer
RepairGet ==
    /\ rep.pc \in {"idle", "done"}
    /\ runs < MaxRuns
    /\ runs' = runs + 1
    /\ IF ~pointer.exists \/ ~pointer.remote
       THEN rep' = [IdleRep EXCEPT !.pc = "done", !.result = "error",
                                   !.excess = rep.excess]
       ELSE rep' = [IdleRep EXCEPT !.pc = "got", !.excess = rep.excess,
                       !.ptr = [date |-> pointer.date, red |-> pointer.red,
                                pieces |-> pointer.pieces]]
    /\ UNCHANGED <<pointer, reliable, env>>
    /\ UNCHANGED notRepair

\* lines 92-132: health check and partition of the pieces
RepairCheck ==
    /\ rep.pc = "got"
    /\ LET pieces == rep.ptr.pieces
           missing == GetMissingPieces(pieces, reliable)
           numHealthy == NumPieces(pieces) - Cardinality(missing)
       IN  IF IsIrreparable(numHealthy, rep.ptr.red)
           THEN rep' = [rep EXCEPT !.pc = "done", !.result = "irreparable"]
           ELSE IF RepairNotNeeded(numHealthy, rep.ptr.red)
           THEN rep' = [rep EXCEPT !.pc = "done", !.result = "ok",
                                   !.outcome = "unnecessary"]
           ELSE rep' = [rep EXCEPT !.pc = "partitioned",
                                   !.healthy = HealthyPieces(pieces, missing),
                                   !.unhealthy = UnhealthyPieces(pieces, missing)]
    /\ UNCHANGED <<pointer, reliable, runs, env>>
    /\ UNCHANGED notRepair

\* overlay.Cache.FindStorageNodes: requested many reliable nodes outside the
\* excluded ones
FindStorageNodes(count, excluded, rel) ==
    IF count <= 0 THEN {{}}
    ELSE {S \in SUBSET (rel \ excluded) : Cardinality(S) = count}

\* the m lowest members of a set of numbers
RECURSIVE Lowest(_, _)
Lowest(S, m) ==
    IF m <= 0 \/ S = {} THEN {}
    ELSE LET x == CHOOSE y \in S : \A z \in S : y <= z
         IN  {x} \cup Lowest(S \ {x}, m - 1)

\* position of x among the members of S, from 1
Rank(S, x) == Cardinality({y \in S : y <= x})

\* orders.Service.CreatePutRepairOrderLimits: one limit per new node, at the
\* piece numbers that carry no GET_REPAIR limit
CreatePutRepairOrderLimits(healthy, newNodes) ==
    LET free == PieceNums \ healthy
        m == Min(Cardinality(free), Cardinality(newNodes))
        slots == Lowest(free, m)
    IN  [i \in PieceNums |->
            IF i \in slots
            THEN CHOOSE nd \in newNodes : Rank(newNodes, nd) = Rank(slots, i)
            ELSE NoNode]

\* lines 134-169: order limits and node selection
RepairOrders ==
    /\ rep.pc = "partitioned"
    /\ LET excluded == ExcludedNodes(rep.ptr.pieces, rep.unhealthy)
           count == RequestCount(rep.ptr.red, rep.excess, Cardinality(rep.healthy))
           found == FindStorageNodes(count, excluded, reliable)
       IN  IF found = {}
           THEN rep' = [rep EXCEPT !.pc = "done", !.result = "error", !.limits = TRUE]
           ELSE \E newNodes \in found :
                    rep' = [rep EXCEPT !.pc = "limits", !.limits = TRUE,
                               !.putLimits = CreatePutRepairOrderLimits(rep.healthy, newNodes)]
    /\ UNCHANGED <<pointer, reliable, runs, env>>
    /\ UNCHANGED notRepair

\* lines 171-181: ecClient.Get and Range over the GET_REPAIR limits
RepairDownload ==
    /\ rep.pc = "limits"
    /\ rep' = IF Cardinality(rep.healthy) < rep.ptr.red.k
              THEN [rep EXCEPT !.pc = "done", !.result = "error"]
              ELSE [rep EXCEPT !.pc = "downloading", !.downloaded = TRUE]
    /\ UNCHANGED <<pointer, reliable, runs, env>>
    /\ UNCHANGED notRepair

\* ecClient.Repair, the return: the context's cancellation turns every result
\* into the error "repair cancelled", no successful upload is an error
UploadResultIgnoreCancel(succ, cancelled) ==
    IF succ = {} THEN "error" ELSE "ok"
UploadResult(succ, cancelled) ==
    IF cancelled THEN "cancelled"
    ELSE IF succ = {} THEN "error"
    ELSE "ok"

\* lines 183-203: ecClient.Repair; the pieces can be decoded only from k+1
\* healthy pieces that can still be reached, and uploaded only to new nodes
\* that can still be reached
RepairUpload ==
    /\ rep.pc = "downloading"
    /\ LET reachable == {i \in rep.healthy : rep.ptr.pieces[i] \in reliable}
           targets == IF Cardinality(reachable) < rep.ptr.red.k + 1 THEN {}
                      ELSE {i \in PiecesOf(rep.putLimits) : rep.putLimits[i] \in reliable}
       IN  \E succ \in SUBSET targets, cancelled \in BOOLEAN :
               rep' = IF UploadResult(succ, cancelled) = "ok"
                      THEN [rep EXCEPT !.pc = "uploaded", !.uploaded = TRUE,
                                       !.cancelled = cancelled,
                                       !.stored = succ, !.successful = succ]
                      ELSE [rep EXCEPT !.pc = "done", !.uploaded = TRUE,
                                       !.cancelled = cancelled, !.stored = succ,
                                       !.result = IF cancelled THEN "cancelled"
                                                  ELSE "error"]
    /\ UNCHANGED <<pointer, reliable, runs, env>>
    /\ UNCHANGED notRepair

\* lines 205-238: classify the outcome and update the pointer
RepairUpdate ==
    /\ rep.pc = "uploaded"
    /\ LET red == rep.ptr.red
           healthyAfter == Cardinality(rep.healthy) + Cardinality(rep.successful)
           toRemoveNums == ToRemove(rep.unhealthy, rep.successful, healthyAfter, red)
           toRemove == [i \in PieceNums |->
                           IF i \in toRemoveNums THEN rep.ptr.pieces[i] ELSE NoNode]
           toAdd == [i \in PieceNums |->
                           IF i \in rep.successful THEN rep.putLimits[i] ELSE NoNode]
           ref == UpdateRef(rep.ptr, pointer)
       IN  /\ pointer' = UpdatePieces(pointer, ref, toAdd, toRemove)
           /\ \E err \in UpdatePiecesErr(pointer, ref) :
                rep' = [rep EXCEPT !.pc = "done",
                           !.outcome = RepairOutcome(healthyAfter, red),
                           !.wrote = UpdatePiecesApplies(pointer, ref),
                           !.writes = rep.writes + 1,
                           !.result = IF err THEN "error" ELSE "ok"]
    /\ UNCHANGED <<reliable, runs, env>>
    /\ UNCHANGED notRepair

\* one more event of the environment
EnvStep ==
    /\ env < MaxEnv
    /\ env' = env + 1

\* a storage node stops being reliable (offline or disqualified) or comes back
NodeOffline ==
    /\ EnvStep
    /\ \E nd \in reliable : reliable' = reliable \ {nd}
    /\ UNCHANGED <<pointer, rep, runs>>
    /\ UNCHANGED notRepair

NodeOnline ==
    /\ EnvStep
    /\ \E nd \in Nodes \ reliable : reliable' = reliable \cup {nd}
    /\ UNCHANGED <<pointer, rep, runs>>
    /\ UNCHANGED notRepair

\* the uplink commits the segment again: a new pointer with a new creationDate
UplinkOverwrite ==
    /\ EnvStep
    /\ pointer.date < MaxDate
    /\ \E remote \in BOOLEAN :
        pointer' = [exists |-> TRUE, remote |-> remote, date |-> pointer.date + 1,
                    red |-> pointer.red,
                    pieces |-> IF remote
                               THEN [i \in PieceNums |-> ((i + pointer.date) % NumNodes) + 1]
                               ELSE NoPieces]
    /\ UNCHANGED <<reliable, rep, runs>>
    /\ UNCHANGED notRepair

\* the uplink deletes the segment
UplinkDelete ==
    /\ EnvStep
    /\ pointer.exists
    /\ pointer' = [pointer EXCEPT !.exists = FALSE]
    /\ UNCHANGED <<reliable, rep, runs>>
    /\ UNCHANGED notRepair

\* Verifier.removeFailedPieces: an audit removes the piece of a failed node
AuditRemove ==
    /\ EnvStep
    /\ pointer.exists
    /\ \E i \in PiecesOf(pointer.pieces) :
        pointer' = UpdatePieces(pointer, pointer, NoPieces,
                                [j \in PieceNums |-> IF j = i THEN pointer.pieces[i] ELSE NoNode])
    /\ UNCHANGED <<reliable, rep, runs>>
    /\ UNCHANGED notRepair

NextRepair ==
    \/ RepairGet
    \/ RepairCheck
    \/ RepairOrders
    \/ RepairDownload
    \/ RepairUpload
    \/ RepairUpdate
    \/ NodeOffline
    \/ NodeOnline
    \/ UplinkOverwrite
    \/ UplinkDelete
    \/ AuditRemove

SpecRepair == InitRepair /\ [][NextRepair]_vars

(***************************************************************************)
(* Properties of the segment repairer                                      *)
(***************************************************************************)

\* the step of Repair that updates the pointer, and the one that checks health
UpdateStep == rep.pc = "uploaded" /\ rep'.pc = "done"
CheckStep == rep.pc = "got" /\ rep'.pc # "got"
HealthyAfter == Cardinality(rep.healthy) + Cardinality(rep.successful)
CasHolds == pointer.exists /\ pointer.date = rep.ptr.date
\* healthy pieces of the pointer Repair read, by the nodes reliable now
NumHealthyNow ==
    NumPieces(rep.ptr.pieces)
        - Cardinality({i \in PiecesOf(rep.ptr.pieces) : rep.ptr.pieces[i] \notin reliable})
NoEffect(r) == ~r.limits /\ ~r.downloaded /\ ~r.uploaded /\ ~r.wrote

\* C1 as stated: after a full repair whose update is applied the pointer
\* holds at least s pieces and every piece is on a node that is reliable at
\* the moment of the write.
C1_AsStated ==
    [][(UpdateStep /\ CasHolds /\ HealthyAfter >= rep.ptr.red.s) =>
            /\ NumPieces(pointer'.pieces) >= rep.ptr.red.s
            /\ \A i \in PiecesOf(pointer'.pieces) : pointer'.pieces[i] \in reliable']_vars

\* C1 amended: after a full repair whose update is applied no piece of the
\* pointer is on a node that Repair found missing when it read the missing
\* pieces at its start, every piece is one Repair found healthy or uploaded,
\* and the pointer holds at least s pieces unless pieces were removed from
\* it since Repair read it.
C1_FullRepair ==
    [][(UpdateStep /\ CasHolds /\ HealthyAfter >= rep.ptr.red.s) =>
            /\ \A i \in PiecesOf(pointer'.pieces) :
                   /\ pointer'.pieces[i] \notin {rep.ptr.pieces[j] : j \in rep.unhealthy}
                   /\ \/ i \in rep.healthy /\ pointer'.pieces[i] = rep.ptr.pieces[i]
                      \/ i \in rep.successful /\ pointer'.pieces[i] = rep.putLimits[i]
            /\ (pointer.pieces = rep.ptr.pieces =>
                    NumPieces(pointer'.pieces) >= rep.ptr.red.s)]_vars

C1_Witness ==
    /\ rep.pc = "done" /\ rep.outcome = "full" /\ rep.wrote
    /\ rep.unhealthy # {}

C7_Irreparable ==
    /\ [](rep.result = "irreparable" => rep.pc = "done" /\ NoEffect(rep))
    /\ [][CheckStep =>
            /\ (NumHealthyNow < rep.ptr.red.k + 1 =>
                    /\ rep'.pc = "done" /\ rep'.result = "irreparable"
                    /\ NoEffect(rep') /\ pointer' = pointer)
            /\ (NumHealthyNow = rep.ptr.red.k + 1 /\ NumHealthyNow <= rep.ptr.red.r =>
                    rep'.pc = "partitioned")]_vars

C7_Witness ==
    /\ rep.pc = "done" /\ rep.result = "irreparable"
    /\ NumPieces(rep.ptr.pieces) >= rep.ptr.red.k + 1

\* C8: with more than r healthy pieces Repair returns success and has neither
\* changed the pointer nor contacted a node, on every run.
C8_NotNeeded ==
    /\ [](rep.outcome = "unnecessary" =>
            rep.pc = "done" /\ rep.result = "ok" /\ NoEffect(rep))
    /\ [][(CheckStep /\ NumHealthyNow > rep.ptr.red.r) =>
            /\ rep'.pc = "done" /\ rep'.result = "ok"
            /\ NoEffect(rep') /\ pointer' = pointer]_vars

C8_Witness ==
    /\ rep.pc = "done" /\ rep.result = "ok" /\ rep.outcome = "unnecessary"
    /\ runs = 2

\* C9: the applied pointer update adds every uploaded piece and keeps every
\* healthy piece; with healthyAfter >= s it removes every unhealthy piece,
\* with healthyAfter < s it removes exactly the unhealthy pieces whose piece
\* number was uploaded again.
C9_UpdateContent ==
    [][(UpdateStep /\ CasHolds) =>
            /\ \A i \in rep.successful : pointer'.pieces[i] = rep.putLimits[i]
            /\ \A i \in rep.healthy : pointer'.pieces[i] = pointer.pieces[i]
            /\ \A i \in rep.unhealthy :
                   IF HealthyAfter >= rep.ptr.red.s \/ i \in rep.successful
                   THEN pointer'.pieces[i] # rep.ptr.pieces[i]
                   ELSE pointer'.pieces[i] = pointer.pieces[i]]_vars

C9_Witness ==
    /\ rep.pc = "done" /\ rep.wrote /\ rep.outcome = "partial"
    /\ \E i \in rep.unhealthy \ rep.successful : pointer.pieces[i] = rep.ptr.pieces[i]
    /\ \E i \in rep.unhealthy : i \in rep.successful

RepairStep == rep' # rep

\* C11: in every execution of Repair the pointer is written at most once,
\* by the update that follows the upload's complete result; no other step
\* of Repair changes the pointer, and a repair whose upload was cancelled or
\* returned an error has not written the pointer.
C11_WriteOnce ==
    /\ [](rep.writes <= 1)
    /\ []((rep.pc = "done" /\ rep.successful = {}) => rep.writes = 0 /\ ~rep.wrote)
    /\ [](rep.cancelled => rep.writes = 0 /\ ~rep.wrote)
    /\ [][RepairStep =>
            /\ (pointer' # pointer \/ rep'.writes > rep.writes) =>
                    /\ UpdateStep /\ rep.uploaded /\ rep.successful # {}
                    /\ ~rep.cancelled /\ rep.writes = 0
            /\ (~UpdateStep => pointer' = pointer)]_vars

\* the nodes of a piece list are pairwise distinct
DistinctNodes(pieces) ==
    \A i \in PiecesOf(pieces), j \in PiecesOf(pieces) :
        i # j => pieces[i] # pieces[j]

\* C12: after a repair's pointer update the pieces of the pointer are on
\* pairwise distinct nodes, at one piece per piece number: every uploaded
\* piece is on a node that was not in the pointer, at a piece number that
\* is not one of the healthy pieces, and the piece that was at its number
\* is replaced by it.
C12_DistinctPieces ==
    /\ [](pointer.exists => DistinctNodes(pointer.pieces))
    /\ [][(UpdateStep /\ CasHolds) =>
            /\ DistinctNodes(pointer'.pieces)
            /\ \A i \in rep.successful :
                   /\ rep.putLimits[i] \notin NodesOf(rep.ptr.pieces)
                   /\ i \notin rep.healthy
                   /\ pointer'.pieces[i] = rep.putLimits[i]
                   /\ \A j \in PiecesOf(pointer'.pieces) :
                          j # i => pointer'.pieces[j] # rep.putLimits[i]]_vars

\* a partial repair was written: uploaded pieces next to pieces that stay,
\* an unhealthy one among them
C12_Witness ==
    /\ rep.pc = "done" /\ rep.wrote /\ rep.outcome = "partial"
    /\ Cardinality(rep.successful) >= 1
    /\ \E i \in rep.unhealthy \ rep.successful : pointer.pieces[i] = rep.ptr.pieces[i]
    /\ \A i \in rep.successful : pointer.pieces[i] = rep.putLimits[i]

\* a cancelled repair that had stored pieces on new nodes
C11_Witness ==
    /\ rep.pc = "done" /\ rep.cancelled /\ rep.stored # {}
    /\ rep.writes = 0 /\ pointer.pieces = rep.ptr.pieces

(***************************************************************************)
(* Audit verifier                                                          *)
(***************************************************************************)

\* a share error: whether it is a transport.Error, whether it wraps
\* context.DeadlineExceeded, and its gRPC status code
NoError == [transport |-> FALSE, ctxDeadline |-> FALSE, code |-> "OK"]
ShareErrors ==
    {[transport |-> TRUE, ctxDeadline |-> TRUE, code |-> "Unknown"],
     [transport |-> TRUE, ctxDeadline |-> FALSE, code |-> "Unknown"],
     [transport |-> TRUE, ctxDeadline |-> FALSE, code |-> "NotFound"],
     [transport |-> TRUE, ctxDeadline |-> FALSE, code |-> "Unavailable"],
     [transport |-> FALSE, ctxDeadline |-> FALSE, code |-> "NotFound"],
     [transport |-> FALSE, ctxDeadline |-> FALSE, code |-> "DeadlineExceeded"],
     [transport |-> FALSE, ctxDeadline |-> FALSE, code |-> "Unknown"]}

\* what GetShare can produce for a limit: the share with the right or with
\* altered data, or an error
ShareOutcomes ==
    {[err |-> NoError, good |-> g] : g \in BOOLEAN}
        \cup {[err |-> e, good |-> FALSE] : e \in ShareErrors}

\* Verify lines 115-156: the lists a share is put on
ClassifyShare(e) ==
    IF e = NoError THEN {"audit"}
    ELSE IF e.transport /\ e.ctxDeadline THEN {"offline"}
    ELSE IF e.transport /\ e.code = "Unknown" THEN {"offline"}
    ELSE (IF e.transport THEN {"contained"} ELSE {})
            \cup (IF e.code = "NotFound" THEN {"failed"} ELSE {"contained"})

\* Reverify lines 354-402: the status of a share by the error of GetShare;
\* "failed" stands for the NOT_FOUND branch and "audit" for the hash check
ReverifyClassify(e) ==
    IF e = NoError THEN "audit"
    ELSE IF e.transport /\ e.ctxDeadline THEN "offline"
    ELSE IF e.transport /\ e.code = "Unknown" THEN "offline"
    ELSE IF e.transport THEN "contained"
    ELSE IF e.code = "NotFound" THEN "failed"
    ELSE "contained"

\* orders.Service.CreateAuditOrderLimits: a limit for every piece whose node
\* is neither skipped nor offline or disqualified
CreateAuditOrderLimits(pieces, skip, rel) ==
    {i \in PiecesOf(pieces) : pieces[i] \notin skip /\ pieces[i] \in rel}

\* getOfflineNodes: the nodes of the pointer without limit that are not skipped
getOfflineNodes(pieces, limits, skip) ==
    LET nodesWithLimit == {pieces[i] : i \in limits}
    IN  {pieces[i] : i \in {j \in PiecesOf(pieces) :
            pieces[j] \notin nodesWithLimit /\ pieces[j] \notin skip}}

\* getSuccessNodes: the nodes of the shares that are on none of the other lists
getSuccessNodes(shareNodes, failedNodes, offlineNodes, containedNodes) ==
    {nd \in shareNodes : nd \notin failedNodes \cup offlineNodes \cup containedNodes}

\* auditShares: infectious Correct over m shares of a (k, n) code finds the
\* altered shares when they are at most (m - k) / 2; with more it fails or
\* lets them pass
auditShares(required, audited, altered) ==
    IF 2 * Cardinality(altered) <= Cardinality(audited) - required
    THEN {[err |-> FALSE, pieceNums |-> altered]}
    ELSE IF Cardinality(audited) = required
    THEN {[err |-> FALSE, pieceNums |-> {}]}
    ELSE {[err |-> FALSE, pieceNums |-> {}], [err |-> TRUE, pieceNums |-> {}]}

\* the audited segment holds AuditPieces of its n pieces; some of their nodes
\* are offline or disqualified
InitVerify ==
    /\ snd = IdleSnd
    /\ cls = IdleCls
    /\ live = IdleLive
    /\ dl = IdleDl
    /\ gs = IdleGs
    /\ \E red \in {x \in Schemes : x.r = Total /\ x.s = Total} :
           pointer = [exists |-> TRUE, remote |-> TRUE, date |-> 1, red |-> red,
                      pieces |-> [i \in PieceNums |->
                                    IF i < AuditPieces THEN InitPieces[i] ELSE NoNode]]
    /\ \E off \in SUBSET {InitPieces[i] : i \in {j \in PieceNums : j < AuditPieces}} :
           reliable = Nodes \ off
    /\ rep = IdleRep
    /\ runs = 0
    /\ env = 0
    /\ ver = IdleVer
    /\ ovl = IdleOvl
    /\ ord = IdleOrd
    /\ chk = IdleChk
    /\ cont = IdleCont
    /\ other = IdleOther
    /\ rv = IdleRv
    /\ ec = IdleEc
    /\ str = IdleStr
    /\ ns = IdleNs

\* Verify lines 78-99: order limits for the pieces of the stripe's segment
VerifyStart ==
    /\ ver.pc = "idle"
    /\ pointer.exists /\ pointer.remote
    /\ \E skip \in SUBSET NodesOf(pointer.pieces) :
        ver' = [IdleVer EXCEPT !.pc = "limits",
                   !.ptr = [date |-> pointer.date, red |-> pointer.red,
                            pieces |-> pointer.pieces],
                   !.skip = skip,
                   !.limits = CreateAuditOrderLimits(pointer.pieces, skip, reliable)]
    /\ UNCHANGED <<pointer, reliable, rep, runs, env>>
    /\ UNCHANGED notVerify

\* Verify line 101, DownloadShares: one share per limit
VerifyDownload ==
    /\ ver.pc = "limits"
    /\ \E shares \in [ver.limits -> ShareOutcomes] :
        ver' = [ver EXCEPT !.pc = "downloaded", !.shares = shares]
    /\ UNCHANGED <<pointer, reliable, rep, runs, env>>
    /\ UNCHANGED notVerify

\* checkIfSegmentDeleted: the pointer is gone or, when the caller hands in
\* the pointer it knows, has another creation date
SegmentDeletedGone(cur, old) == ~cur.exists
SegmentDeleted(cur, old) ==
    ~cur.exists \/ (old # NilPointer /\ cur.date # old.date)

\* Verify lines 108-113, checkIfSegmentDeleted
VerifyCheckDeleted ==
    /\ ver.pc = "downloaded"
    /\ LET offlineNodes == getOfflineNodes(ver.ptr.pieces, ver.limits, ver.skip)
       IN  ver' = IF SegmentDeleted(pointer, ver.ptr)
                  THEN [ver EXCEPT !.pc = "done", !.err = "deleted",
                                   !.report = Report({}, {}, offlineNodes, {})]
                  ELSE [ver EXCEPT !.pc = "checked"]
    /\ UNCHANGED <<pointer, reliable, rep, runs, env>>
    /\ UNCHANGED notVerify

\* Verify lines 115-239: classify the shares, audit them, remove the failed
\* pieces and report
VerifyAudit ==
    /\ ver.pc = "checked"
    /\ LET pieces == ver.ptr.pieces
           class(i) == ClassifyShare(ver.shares[i].err)
           on(list) == {i \in ver.limits : list \in class(i)}
           sharesToAudit == on("audit")
           offlineNodes == getOfflineNodes(pieces, ver.limits, ver.skip)
                               \cup {pieces[i] : i \in on("offline")}
           containedNodes == {pieces[i] : i \in on("contained")}
           failedFirst == {pieces[i] : i \in on("failed")}
           required == ver.ptr.red.k
       IN  IF Cardinality(sharesToAudit) < required
           THEN /\ ver' = [ver EXCEPT !.pc = "done", !.err = "notenough",
                              !.report = Report({}, failedFirst, offlineNodes, {})]
                /\ pointer' = pointer
           ELSE \E res \in auditShares(required, sharesToAudit,
                                       {i \in sharesToAudit : ~ver.shares[i].good}) :
                IF res.err
                THEN /\ ver' = [ver EXCEPT !.pc = "done", !.err = "correct",
                                   !.report = Report({}, failedFirst, offlineNodes, {})]
                     /\ pointer' = pointer
                ELSE LET failedNodes == failedFirst \cup {pieces[i] : i \in res.pieceNums}
                         toRemove == [i \in PieceNums |->
                                        IF pieces[i] \in failedNodes THEN pieces[i] ELSE NoNode]
                         successNodes == getSuccessNodes({pieces[i] : i \in ver.limits},
                                            failedNodes, offlineNodes, containedNodes)
                     IN  /\ pointer' = IF failedNodes = {} THEN pointer
                                       ELSE UpdatePieces(pointer, ver.ptr, NoPieces, toRemove)
                         /\ ver' = [ver EXCEPT !.pc = "done",
                                       !.report = Report(successNodes, failedNodes,
                                                         offlineNodes, containedNodes)]
    /\ UNCHANGED <<reliable, rep, runs, env>>
    /\ UNCHANGED notVerify

\* writes to the pointer by the uplink and by another audit during Verify
AuditOverwrite == env < MaxAuditEnv /\ UplinkOverwrite
AuditDelete == env < MaxAuditEnv /\ UplinkDelete
AuditOtherRemove == env < MaxAuditEnv /\ AuditRemove

NextVerify ==
    \/ VerifyStart
    \/ VerifyDownload
    \/ VerifyCheckDeleted
    \/ VerifyAudit
    \/ AuditOverwrite
    \/ AuditDelete
    \/ AuditOtherRemove

SpecVerify == InitVerify /\ [][NextVerify]_vars

(***************************************************************************)
(* Audit: Reverify and the fan-out of DownloadShares                       *)
(***************************************************************************)

\* the pointer at the path of a pending audit
PointerAt(path) == IF path = "other" THEN other ELSE pointer

\* the pending audits a node of the stripe's segment may have: made for the
\* segment at the stripe's path when it had creationDate 0 or 1, or for the
\* segment at the other path
PendingRecords(otherDate) ==
    {[present |-> TRUE, path |-> "stripe", date |-> d] : d \in 0..1}
        \cup {[present |-> TRUE, path |-> "other", date |-> otherDate]}

\* containment.Get for a node: the record, ErrContainedNotFound or another
\* error of the database
ContainmentGetFound(c, nd) == {"found", "error"}
ContainmentGet(c, nd) ==
    IF c[nd].present THEN {"found", "error"} ELSE {"notfound", "error"}

\* orders.Service.CreateAuditOrderLimit for the node of a pending audit
CreateAuditOrderLimit(nd, rel) ==
    IF nd \in rel THEN {"ok", "error"} ELSE {"offline", "disqualified"}

\* what the share of a reverified piece amounts to: the status of its error,
\* or the comparison of its hash with the pending audit's expected hash
ShareAnswer(o) ==
    IF o.err = NoError THEN (IF o.good THEN "match" ELSE "mismatch")
    ELSE IF ReverifyClassify(o.err) = "failed" THEN "notfound"
    ELSE ReverifyClassify(o.err)

\* Reverify lines 318-327: a disqualified node's pending audit is deleted
DeletesPendingNever(out) == FALSE
DeletesPending(out) == out = "disqualified"

\* ch <- result{status}: the goroutine of piece i ends with a result
RvSend(i, st) ==
    [rv EXCEPT !.g[i].pc = "end", !.g[i].status = st, !.ch = @ \cup {i}]

\* the stripe's segment holds RevPieces pieces; some of its nodes have a
\* pending audit, for this segment or for the one at the other path
InitReverify ==
    /\ snd = IdleSnd
    /\ cls = IdleCls
    /\ live = IdleLive
    /\ dl = IdleDl
    /\ gs = IdleGs
    /\ \E red \in {x \in Schemes : x.k = RevPieces /\ x.r = Total /\ x.s = Total} :
           pointer = [exists |-> TRUE, remote |-> TRUE, date |-> 1, red |-> red,
                      pieces |-> [i \in PieceNums |->
                                    IF i < RevPieces THEN InitPieces[i] ELSE NoNode]]
    /\ \E m \in 0..RevPieces : reliable = Nodes \ {InitPieces[j] : j \in 0..(m - 1)}
    /\ \E ex \in BOOLEAN, d \in 1..MaxDate :
        /\ other = [exists |-> ex, remote |-> TRUE, date |-> d,
                    red |-> CHOOSE x \in Schemes : TRUE,
                    pieces |-> [i \in PieceNums |->
                                  IF i < RevPieces THEN InitPieces[i] ELSE NoNode]]
        /\ cont \in [Nodes -> PendingRecords(d) \cup {NoPending}]
        /\ \A nd \in Nodes : cont[nd].present => nd \in NodesOf(pointer.pieces)
        /\ (\A nd \in Nodes : cont[nd].path # "other") => (ex /\ d = 1)
    /\ rep = IdleRep
    /\ runs = 0
    /\ env = 0
    /\ ver = IdleVer
    /\ ovl = IdleOvl
    /\ ord = IdleOrd
    /\ chk = IdleChk
    /\ rv = IdleRv
    /\ ec = IdleEc
    /\ str = IdleStr
    /\ ns = IdleNs

\* Reverify lines 299-313: the loop over the pieces of the stripe's segment
\* looks up the pending audit of each node and starts a goroutine for it
ReverifyStart ==
    /\ rv.pc = "idle" /\ ver.pc = "idle"
    /\ pointer.exists /\ pointer.remote
    /\ LET pieces == PiecesOf(pointer.pieces)
       IN  \E get \in [pieces -> {"found", "notfound", "error"}] :
            /\ \A i \in pieces : get[i] \in ContainmentGet(cont, pointer.pieces[i])
            /\ rv' = [IdleRv EXCEPT
                        !.pc = IF pieces = {} THEN "done" ELSE "running",
                        !.ptr = [date |-> pointer.date, pieces |-> pointer.pieces],
                        !.g = [i \in PieceNums |->
                                 IF i \notin pieces THEN NoRoutine
                                 ELSE IF get[i] = "found"
                                 THEN [NoRoutine EXCEPT !.pc = "limit",
                                          !.pending = cont[pointer.pieces[i]]]
                                 ELSE [NoRoutine EXCEPT !.pc = "end",
                                          !.status = IF get[i] = "notfound"
                                                     THEN "skipped" ELSE "erred"]],
                        !.ch = {i \in pieces : get[i] # "found"},
                        !.report = [NoReport EXCEPT !.returned = (pieces = {})]]
    /\ UNCHANGED <<pointer, cont, other, env>>
    /\ UNCHANGED notReverify

\* Reverify lines 316-337: the order limit for the node of the pending audit
RvLimit(i) ==
    /\ rv.pc = "running" /\ rv.g[i].pc = "limit"
    /\ LET nd == rv.ptr.pieces[i]
       IN  \E out \in CreateAuditOrderLimit(nd, reliable) :
            /\ rv' = [(IF out = "ok" THEN [rv EXCEPT !.g[i].pc = "download"]
                       ELSE IF out = "offline" THEN RvSend(i, "offline")
                       ELSE RvSend(i, "erred"))
                          EXCEPT !.g[i].limit = out]
            /\ cont' = IF DeletesPending(out)
                       THEN [cont EXCEPT ![nd] = NoPending] ELSE cont
    /\ UNCHANGED <<pointer, other, env>>
    /\ UNCHANGED notReverify

\* Reverify lines 339-422: GetShare returns, the pending audit is looked up
\* again, and the share is classified
RvShare(i) ==
    /\ rv.pc = "running" /\ rv.g[i].pc = "download"
    /\ LET nd == rv.ptr.pieces[i]
           pending == rv.g[i].pending
           cur == PointerAt(pending.path)
           check(old) ==
               IF SegmentDeleted(cur, old) THEN RvSend(i, "success")
               ELSE [rv EXCEPT !.g[i].pc = "remove",
                               !.g[i].oldPtr = [date |-> cur.date, pieces |-> cur.pieces]]
       IN  \E o \in ShareOutcomes, get \in ContainmentGet(cont, nd) :
            LET answer == ShareAnswer(o)
                next == IF get = "notfound" THEN RvSend(i, "skipped")
                        ELSE IF get = "error" THEN RvSend(i, "erred")
                        ELSE IF answer \in {"offline", "contained"} THEN RvSend(i, answer)
                        ELSE IF answer = "notfound" THEN check(rv.ptr)
                        ELSE IF answer = "match" THEN RvSend(i, "success")
                        ELSE check(NilPointer)
            IN  rv' = IF get = "found" THEN [next EXCEPT !.g[i].answer = answer]
                      ELSE next
    /\ UNCHANGED <<pointer, cont, other, env>>
    /\ UNCHANGED notReverify

\* Reverify lines 382-388 and 414-421: removeFailedPieces on the pointer that
\* checkIfSegmentDeleted returned, then the result failed
RvRemove(i) ==
    /\ rv.pc = "running" /\ rv.g[i].pc = "remove"
    /\ LET nd == rv.ptr.pieces[i]
           path == rv.g[i].pending.path
           oldPtr == rv.g[i].oldPtr
           toRemove == [j \in PieceNums |->
                          IF oldPtr.pieces[j] = nd THEN nd ELSE NoNode]
           new == UpdatePieces(PointerAt(path), oldPtr, NoPieces, toRemove)
       IN  /\ pointer' = IF path = "other" THEN pointer ELSE new
           /\ other' = IF path = "other" THEN new ELSE other
           /\ rv' = RvSend(i, "failed")
    /\ UNCHANGED <<cont, env>>
    /\ UNCHANGED notReverify

\* Reverify lines 426-441: the collector takes one result from the channel
RvCollect ==
    /\ rv.pc = "running"
    /\ \E i \in rv.ch :
        LET st == rv.g[i].status
            nd == rv.ptr.pieces[i]
            received == rv.received \cup {i}
            add(s, list) == IF st = s THEN list \cup {nd} ELSE list
            last == Cardinality(received) = Cardinality(PiecesOf(rv.ptr.pieces))
        IN  rv' = [rv EXCEPT
                     !.ch = @ \ {i},
                     !.received = received,
                     !.report = [returned |-> last,
                                 successes |-> add("success", @.successes),
                                 fails |-> add("failed", @.fails),
                                 offlines |-> add("offline", @.offlines),
                                 pending |-> add("contained", @.pending)],
                     !.err = @ \/ st = "erred",
                     !.pc = IF last THEN "done" ELSE "running"]
    /\ UNCHANGED <<pointer, cont, other, env>>
    /\ UNCHANGED notReverify

\* the limits DownloadShares sends a nil share for
NilSendsNone(limits) == {}
NilSends(limits) == PieceNums \ limits

\* the share that stands for a nil limit on the channel
NilShare == [err |-> NoError, good |-> FALSE, nil |-> TRUE]

\* DownloadShares lines 245-265: the loop over the limits sends nil for a
\* nil limit and starts a goroutine for every other
DownloadSharesStart ==
    /\ ver.pc = "limits"
    /\ ver' = [ver EXCEPT !.pc = "fanout",
                  !.ch = {[piece |-> i, share |-> NilShare] : i \in NilSends(ver.limits)},
                  !.sent = NilSends(ver.limits)]
    /\ UNCHANGED <<pointer, reliable, rep, runs, env>>
    /\ UNCHANGED notVerify

\* DownloadShares lines 253-264: the goroutine of a limit sends its share
DownloadGetShare(i) ==
    /\ ver.pc = "fanout"
    /\ i \in ver.limits \ ver.sent
    /\ \E o \in ShareOutcomes :
        ver' = [ver EXCEPT !.ch = @ \cup {[piece |-> i, share |-> o]},
                           !.sent = @ \cup {i}]
    /\ UNCHANGED <<pointer, reliable, rep, runs, env>>
    /\ UNCHANGED notVerify

\* DownloadShares lines 267-272: the collector takes one share per limit
DownloadCollect ==
    /\ ver.pc = "fanout"
    /\ ver.received < Total
    /\ \E m \in ver.ch :
        LET shares == IF m.share = NilShare THEN ver.shares
                      ELSE [j \in DOMAIN ver.shares \cup {m.piece} |->
                              IF j = m.piece THEN m.share ELSE ver.shares[j]]
        IN  ver' = [ver EXCEPT !.ch = @ \ {m},
                       !.received = @ + 1,
                       !.shares = shares,
                       !.pc = IF ver.received + 1 = Total THEN "downloaded" ELSE "fanout"]
    /\ UNCHANGED <<pointer, reliable, rep, runs, env>>
    /\ UNCHANGED notVerify

\* a Verify call when no node of the segment is contained
FanVerifyStart ==
    /\ rv.pc = "idle"
    /\ \A nd \in Nodes : ~cont[nd].present
    /\ VerifyStart

\* an audit call is under way
AuditRunning == rv.pc = "running" \/ ver.pc \notin {"idle", "done"}

\* writes by others while the audit runs: the uplink and another audit on
\* the pointer, and an actor that clears a pending audit
RvOverwrite == AuditRunning /\ AuditOverwrite
RvDelete == AuditRunning /\ AuditDelete
RvOtherRemove == AuditRunning /\ AuditOtherRemove
ContainmentDelete ==
    /\ rv.pc = "running"
    /\ env < MaxAuditEnv
    /\ env' = env + 1
    /\ \E nd \in Nodes :
        /\ cont[nd].present
        /\ cont' = [cont EXCEPT ![nd] = NoPending]
    /\ UNCHANGED <<pointer, other, rv>>
    /\ UNCHANGED notReverify

\* the steps of the audit's own goroutines
AuditProgress ==
    \/ \E i \in PieceNums : RvLimit(i)
    \/ \E i \in PieceNums : RvShare(i)
    \/ \E i \in PieceNums : RvRemove(i)
    \/ RvCollect
    \/ DownloadSharesStart
    \/ \E i \in PieceNums : DownloadGetShare(i)
    \/ DownloadCollect
    \/ VerifyCheckDeleted
    \/ VerifyAudit

NextReverify ==
    \/ ReverifyStart
    \/ FanVerifyStart
    \/ AuditProgress
    \/ RvOverwrite
    \/ RvDelete
    \/ RvOtherRemove
    \/ ContainmentDelete

\* every goroutine that can take a step is scheduled, and every download
\* returns within its deadline
SpecReverify == InitReverify /\ [][NextReverify]_vars /\ WF_vars(AuditProgress)

(***************************************************************************)
(* Erasure client: Put, Repair and Delete                                  *)
(***************************************************************************)

\* Put lines 810-813: too few non-nil limits
TooFewLimits(nonNilLimits, rs) == nonNilLimits <= rs.r /\ nonNilLimits < rs.s

\* Put lines 887-894: the two checks of the number of successful puts
PutFails(successes, rs) ==
    \/ (successes <= rs.r /\ successes < rs.s)
    \/ successes < rs.s

\* Repair lines 981-983
RepairFails(successes) == successes = 0

\* Put lines 868-871: the optimal threshold cancels the remaining uploads
\* of Put; the loop of Repair (945-963) has no such cancel
CancelsAtThresholdAlways(op, count, rs) == count >= rs.s
CancelsAtThreshold(op, count, rs) == op = "put" /\ count >= rs.s

\* Delete lines 1131-1134: all results are errors
DeleteFails(allerrs, limits) == allerrs > 0 /\ allerrs = EcTotal

InitEC ==
    /\ snd = IdleSnd
    /\ cls = IdleCls
    /\ live = IdleLive
    /\ dl = IdleDl
    /\ gs = IdleGs
    /\ pointer = IdlePointer
    /\ reliable = Nodes
    /\ rep = IdleRep
    /\ runs = 0
    /\ env = 0
    /\ ver = IdleVer
    /\ ovl = IdleOvl
    /\ ord = IdleOrd
    /\ chk = IdleChk
    /\ cont = IdleCont
    /\ other = IdleOther
    /\ rv = IdleRv
    /\ ec = IdleEc
    /\ str = IdleStr
    /\ ns = IdleNs

\* Put lines 803-841 and Repair lines 899-932: the checks of the limits, the
\* encoder, and one goroutine per slot
EcUploadStart ==
    /\ ec.pc = "idle"
    /\ \E op \in {"put", "repair"}, limits \in SUBSET EcSlots, rs \in EcStrategies,
          fault \in {"none", "duplicate", "encode"} :
        LET few == op = "put" /\ TooFewLimits(Cardinality(limits), rs)
            dup == fault = "duplicate" /\ Cardinality(limits) >= 2
            refused == few \/ dup \/ fault = "encode"
        IN  ec' = IF refused
                  THEN [IdleEc EXCEPT !.op = op, !.pc = "done", !.limits = limits,
                                      !.rs = rs, !.result = "refused"]
                  ELSE [IdleEc EXCEPT !.op = op, !.pc = "running", !.limits = limits,
                                      !.rs = rs,
                                      !.g = [i \in EcSlots |-> [NoUpload EXCEPT !.pc = "start"]]]
    /\ UNCHANGED notEC

\* infos <- info{i, err, hash}
EcSend(i, err, hash, how) ==
    [ec EXCEPT !.g[i] = [pc |-> "sent", err |-> err, hash |-> hash, how |-> how],
               !.infos = @ \cup {i}]

\* putPiece lines 991-1056: nothing to do for a nil limit; dial, request the
\* upload and copy the data, unless the context was cancelled meanwhile
PutPieceCopy(i) ==
    /\ ec.pc = "running" /\ ec.op \in {"put", "repair"}
    /\ ec.g[i].pc = "start"
    /\ IF i \notin ec.limits
       THEN ec' = EcSend(i, FALSE, FALSE, "nil")
       ELSE \E out \in {"dial", "copy", "ok"} :
            ec' = IF out = "dial" THEN EcSend(i, TRUE, FALSE, "failed")
                  ELSE IF ec.psCancelled
                  THEN [ec EXCEPT !.g[i].pc = "copied", !.g[i].err = TRUE,
                                  !.g[i].how = "cancelled"]
                  ELSE IF out = "copy"
                  THEN [ec EXCEPT !.g[i].pc = "copied", !.g[i].err = TRUE,
                                  !.g[i].how = "failed"]
                  ELSE [ec EXCEPT !.g[i].pc = "copied"]
    /\ UNCHANGED notEC

\* putPiece lines 1026-1035: the deferred commit; a cancelled context or an
\* error cancels the upload instead, and the error of putPiece is then the
\* one of the copy combined with the one of upload.Cancel
PutPieceFinish(i) ==
    /\ ec.pc = "running" /\ ec.g[i].pc = "copied"
    /\ \E callOk \in BOOLEAN :
        ec' = IF ec.psCancelled \/ ec.g[i].err
              THEN EcSend(i, ec.g[i].err \/ ~callOk, FALSE,
                          IF ec.g[i].err THEN ec.g[i].how ELSE "cancelled")
              ELSE IF callOk THEN EcSend(i, FALSE, TRUE, "committed")
              ELSE EcSend(i, TRUE, FALSE, "failed")
    /\ UNCHANGED notEC

\* Put lines 847-897 and Repair lines 945-988: the collector takes one info;
\* after the last it returns
EcUploadCollect ==
    /\ ec.pc = "running" /\ ec.op \in {"put", "repair"}
    /\ \E i \in ec.infos :
        LET counted == i \in ec.limits /\ ~ec.g[i].err
            nodes == IF counted THEN [ec.nodes EXCEPT ![i] = LimitNode(i)] ELSE ec.nodes
            hashes == IF counted /\ ec.g[i].hash THEN ec.hashes \cup {i} ELSE ec.hashes
            count == IF counted THEN ec.count + 1 ELSE ec.count
            got == ec.got \cup {i}
            last == got = EcSlots
            fails == IF ec.op = "put" THEN PutFails(count, ec.rs) ELSE RepairFails(count)
        IN  ec' = [ec EXCEPT
                     !.infos = @ \ {i}, !.got = got,
                     !.g[i].pc = "received",
                     !.nodes = nodes, !.hashes = hashes, !.count = count,
                     !.psCancelled = @ \/ (counted /\ CancelsAtThreshold(ec.op, count, ec.rs)),
                     !.pc = IF last THEN "done" ELSE "running",
                     !.result = IF ~last THEN "none"
                                ELSE IF fails \/ ec.ctxCancelled THEN "error" ELSE "ok",
                     !.retNodes = IF last /\ ~fails THEN nodes ELSE @,
                     !.retHashes = IF last /\ ~fails THEN hashes ELSE @]
    /\ UNCHANGED notEC

\* the caller cancels the context of the call
EcCallerCancel ==
    /\ ec.pc = "running" /\ ~ec.ctxCancelled
    /\ ec' = [ec EXCEPT !.ctxCancelled = TRUE, !.psCancelled = TRUE]
    /\ UNCHANGED notEC

\* Repair lines 936-942: the timer fires before the collector is done
EcTimer ==
    /\ ec.pc = "running" /\ ec.op = "repair" /\ ~ec.timerFired
    /\ ec' = [ec EXCEPT !.timerFired = TRUE,
                        !.psCancelled = @ \/ ~ec.ctxCancelled]
    /\ UNCHANGED notEC

\* Delete lines 1107-1129: nil is sent for a nil limit, and one goroutine
\* per other limit
EcDeleteStart ==
    /\ ec.pc = "idle"
    /\ \E limits \in SUBSET EcSlots :
        ec' = [IdleEc EXCEPT !.op = "delete", !.pc = "running", !.limits = limits,
                  !.g = [i \in EcSlots |->
                           IF i \in limits THEN [NoUpload EXCEPT !.pc = "start"]
                           ELSE [NoUpload EXCEPT !.pc = "sent", !.how = "nil"]],
                  !.infos = EcSlots \ limits]
    /\ UNCHANGED notEC

\* Delete lines 1113-1128: dial, delete and close
EcDeletePiece(i) ==
    /\ ec.pc = "running" /\ ec.op = "delete"
    /\ ec.g[i].pc = "start"
    /\ \E ok \in BOOLEAN :
        ec' = EcSend(i, ~ok, FALSE, IF ok THEN "deleted" ELSE "failed")
    /\ UNCHANGED notEC

\* collectErrors and Delete lines 1131-1136
EcDeleteCollect ==
    /\ ec.pc = "running" /\ ec.op = "delete"
    /\ \E i \in ec.infos :
        LET count == IF ec.g[i].err THEN ec.count + 1 ELSE ec.count
            got == ec.got \cup {i}
            last == got = EcSlots
        IN  ec' = [ec EXCEPT
                     !.infos = @ \ {i}, !.got = got, !.g[i].pc = "received",
                     !.count = count,
                     !.pc = IF last THEN "done" ELSE "running",
                     !.result = IF ~last THEN "none"
                                ELSE IF DeleteFails(count, ec.limits) THEN "error"
                                ELSE "ok"]
    /\ UNCHANGED notEC

NextEC ==
    \/ EcUploadStart
    \/ \E i \in EcSlots : PutPieceCopy(i)
    \/ \E i \in EcSlots : PutPieceFinish(i)
    \/ EcUploadCollect
    \/ EcCallerCancel
    \/ EcTimer
    \/ EcDeleteStart
    \/ \E i \in EcSlots : EcDeletePiece(i)
    \/ EcDeleteCollect

SpecEC == InitEC /\ [][NextEC]_vars

(***************************************************************************)
(* Checker: observer passes and irreparable scanner over a namespace       *)
(***************************************************************************)

\* segments of one redundancy scheme, some of their nodes not reliable; the
\* repair queue and the irreparable store are empty
InitScanner ==
    /\ snd = IdleSnd
    /\ cls = IdleCls
    /\ live = IdleLive
    /\ dl = IdleDl
    /\ gs = IdleGs
    /\ pointer = IdlePointer
    /\ reliable = Nodes
    /\ rep = IdleRep
    /\ runs = 0
    /\ env = 0
    /\ ver = IdleVer
    /\ ovl = IdleOvl
    /\ ord = IdleOrd
    /\ chk = IdleChk
    /\ cont = IdleCont
    /\ other = IdleOther
    /\ rv = IdleRv
    /\ ec = IdleEc
    /\ str = IdleStr
    /\ \E red \in ScanSchemes :
       \E seg \in [Paths -> {sg \in Segments : sg.exists /\ sg.off <= sg.np}] :
           ns = [IdleNs EXCEPT !.red = red, !.seg = seg]

\* IdentifyInjuredSegments: the observer joins the metainfo loop
PassStart ==
    /\ ns.pass.pc = "idle"
    /\ ns.pass.runs < MaxPasses
    /\ ns' = [ns EXCEPT !.pass.pc = "running", !.pass.next = 1,
                        !.pass.failed = FALSE,
                        !.pass.stable = TRUE, !.scan.stable = FALSE]
    /\ UNCHANGED notNs

\* the loop hands the observer the next segment of the namespace:
\* checkerObserver.RemoteSegment; an error of MissingPieces ends the pass
PassSegment ==
    /\ ns.pass.pc = "running"
    /\ ns.pass.next <= NumPaths
    /\ LET p == ns.pass.next
           sg == ns.seg[p]
       IN  IF ~sg.exists
           THEN ns' = [ns EXCEPT !.pass.next = p + 1]
           ELSE \E fails \in HealthFailures(sg, ns.red) :
                LET out == HealthUpdate(ns.queue, ns.irrdb, p, sg, ns.red, fails)
                IN  ns' = [ns EXCEPT
                             !.queue = out.queue, !.irrdb = out.irrdb,
                             !.scan.kept = {q \in @ : out.irrdb[q].present},
                             !.pass.failed = @ \/ fails # "none",
                             !.pass.next = IF fails = "MissingPieces"
                                           THEN NumPaths + 1 ELSE p + 1]
    /\ UNCHANGED notNs

\* the loop has gone through the namespace
PassEnd ==
    /\ ns.pass.pc = "running"
    /\ ns.pass.next > NumPaths
    /\ ns' = [ns EXCEPT !.pass.pc = "idle", !.pass.runs = @ + 1,
                        !.pass.past = ~ns.pass.failed /\ ns.pass.stable,
                        !.scan.stable = ~ns.pass.failed /\ ns.pass.stable
                                            /\ ns.scan.pc = "idle"]
    /\ UNCHANGED notNs

\* IrreparableProcess starts with an empty lastSeenSegmentPath; scan.after
\* notes whether a complete observer pass came before, with nothing changed
ScanStart ==
    /\ ns.scan.pc = "idle"
    /\ ns.scan.runs < MaxScans
    /\ ns' = [ns EXCEPT !.scan.pc = "get", !.scan.last = 0, !.scan.page = <<>>,
                        !.scan.visited = {}, !.scan.errors = 0,
                        !.scan.result = "none",
                        !.scan.after = ns.scan.stable,
                        !.scan.kept = {p \in Paths : ns.irrdb[p].present}]
    /\ UNCHANGED notNs

\* IrreparableProcess: the next page; an error ends the run, an empty page
\* ends it without error
ScanGet ==
    /\ ns.scan.pc = "get"
    /\ \E ok \in BOOLEAN :
        LET page == GetLimited(ns.irrdb, ScanLimit, ns.scan.last)
        IN  IF ~ok
            THEN ns' = [ns EXCEPT !.scan.pc = "idle", !.scan.runs = @ + 1,
                                  !.scan.result = "error"]
            ELSE IF page = <<>>
            THEN ns' = [ns EXCEPT !.scan.pc = "idle", !.scan.runs = @ + 1,
                                  !.scan.result = "nil"]
            ELSE ns' = [ns EXCEPT !.scan.pc = "page", !.scan.page = page,
                                  !.scan.last = page[Len(page)]]
    /\ UNCHANGED notNs

\* IrreparableProcess: updateIrreparableSegmentStatus on the next record of
\* the page, with the pointer the record holds; an error is logged
ScanRecord ==
    /\ ns.scan.pc = "page"
    /\ LET p == Head(ns.scan.page)
           sg == ns.seg[p]
       IN  \E fails \in HealthFailures(sg, ns.red) :
            LET out == HealthUpdate(ns.queue, ns.irrdb, p, sg, ns.red, fails)
            IN  ns' = [ns EXCEPT
                         !.queue = out.queue, !.irrdb = out.irrdb,
                         !.scan.kept = {q \in @ : out.irrdb[q].present},
                         !.scan.errors = IF fails = "none" THEN @ ELSE @ + 1,
                         !.scan.visited = @ \cup {p},
                         !.scan.page = Tail(@),
                         !.scan.pc = IF Tail(ns.scan.page) = <<>> THEN "get" ELSE "page"]
    /\ UNCHANGED notNs

\* nodes of a segment's pieces go offline or come back
ReliabilityChange ==
    /\ ns.envs < MaxNsEnv
    /\ \E p \in Paths, off \in {sg.off : sg \in Segments} :
        /\ off # ns.seg[p].off
        /\ ns' = [ns EXCEPT !.seg[p].off = off, !.envs = @ + 1,
                            !.pass.stable = FALSE, !.pass.past = FALSE,
                            !.scan.stable = FALSE]
    /\ UNCHANGED notNs

\* an uplink deletes a segment
SegmentDelete ==
    /\ ns.envs < MaxNsEnv
    /\ \E p \in Paths :
        /\ ns.seg[p].exists
        /\ ns' = [ns EXCEPT !.seg[p].exists = FALSE, !.envs = @ + 1,
                            !.pass.stable = FALSE, !.pass.past = FALSE,
                            !.scan.stable = FALSE]
    /\ UNCHANGED notNs

ScanProgress ==
    \/ ScanGet
    \/ ScanRecord

NextScanner ==
    \/ PassStart
    \/ PassSegment
    \/ PassEnd
    \/ ScanStart
    \/ ScanGet
    \/ ScanRecord
    \/ ReliabilityChange
    \/ SegmentDelete

SpecScanner == InitScanner /\ [][NextScanner]_vars /\ WF_vars(ScanProgress)

(***************************************************************************)
(* Verifier.GetShare                                                       *)
(***************************************************************************)
InitShare ==
    /\ snd = IdleSnd
    /\ cls = IdleCls
    /\ live = IdleLive
    /\ dl = IdleDl
    /\ \E cfg \in ShareConfigs : gs = [IdleGs EXCEPT !.cfg = cfg]
    /\ pointer = IdlePointer
    /\ reliable = Nodes
    /\ rep = IdleRep
    /\ runs = 0
    /\ env = 0
    /\ ver = IdleVer
    /\ ovl = IdleOvl
    /\ ord = IdleOrd
    /\ chk = IdleChk
    /\ cont = IdleCont
    /\ other = IdleOther
    /\ rv = IdleRv
    /\ ec = IdleEc
    /\ str = IdleStr
    /\ ns = IdleNs

\* GetShare is called for a share of shareSize bytes and derives timedCtx
GetShareCall ==
    /\ gs.pc = "idle"
    /\ gs.calls < MaxShares
    /\ \E shareSize \in 0..MaxShareSize :
        gs' = [gs EXCEPT !.pc = "dial", !.shareSize = shareSize,
                         !.timedCtx = TimedCtx(gs.cfg, shareSize),
                         !.ret = "none"]
    /\ UNCHANGED notGs

\* piecestore.Dial(timedCtx, ...): an error ends the call
GetShareDial ==
    /\ gs.pc = "dial"
    /\ \E ok \in BOOLEAN :
        gs' = IF ok THEN [gs EXCEPT !.pc = "download"]
              ELSE [gs EXCEPT !.pc = "idle", !.ret = "error", !.calls = @ + 1]
    /\ UNCHANGED notGs

\* ps.Download(timedCtx, ...): an error ends the call
GetShareDownload ==
    /\ gs.pc = "download"
    /\ \E ok \in BOOLEAN :
        gs' = IF ok THEN [gs EXCEPT !.pc = "read"]
              ELSE [gs EXCEPT !.pc = "idle", !.ret = "error", !.calls = @ + 1]
    /\ UNCHANGED notGs

\* io.ReadFull(downloader, buf): the share or the error is returned
GetShareRead ==
    /\ gs.pc = "read"
    /\ \E ok \in BOOLEAN :
        gs' = [gs EXCEPT !.pc = "idle", !.calls = @ + 1,
                         !.ret = IF ok THEN "share" ELSE "error"]
    /\ UNCHANGED notGs

NextShare ==
    \/ GetShareCall
    \/ GetShareDial
    \/ GetShareDownload
    \/ GetShareRead

SpecShare == InitShare /\ [][NextShare]_vars

(***************************************************************************)
(* segmentStore.Get: the download of a remote segment                      *)
(***************************************************************************)
\* a segment with a piece of every number; online are the piece numbers
\* whose nodes are online
InitDownload ==
    /\ snd = IdleSnd
    /\ cls = IdleCls
    /\ live = IdleLive
    /\ \E red \in Schemes, online \in SUBSET PieceNums :
        dl = [IdleDl EXCEPT !.red = red, !.online = online]
    /\ gs = IdleGs
    /\ pointer = IdlePointer
    /\ reliable = Nodes
    /\ rep = IdleRep
    /\ runs = 0
    /\ env = 0
    /\ ver = IdleVer
    /\ ovl = IdleOvl
    /\ ord = IdleOrd
    /\ chk = IdleChk
    /\ cont = IdleCont
    /\ other = IdleOther
    /\ rv = IdleRv
    /\ ec = IdleEc
    /\ str = IdleStr
    /\ ns = IdleNs

\* metainfo.ReadSegment: the satellite's limits, nil for the pieces whose
\* nodes are offline
ReadSegment ==
    /\ dl.pc = "idle"
    /\ dl.result = "none"
    /\ dl' = [dl EXCEPT !.pc = "select", !.limits = dl.online]
    /\ UNCHANGED notDl

\* segmentStore.Get: needed limits are selected in a random order
SelectLimits ==
    /\ dl.pc = "select"
    /\ \E sel \in Selections(dl.limits, CalcNeededNodes(dl.red)) :
        dl' = [dl EXCEPT !.pc = "get", !.selected = sel]
    /\ UNCHANGED notDl

\* ecClient.Get: the checks of the limits slice
EcGet ==
    /\ dl.pc = "get"
    /\ dl' = IF EcGetErr(dl.selected, dl.red) = "error"
             THEN [dl EXCEPT !.pc = "idle", !.result = "error"]
             ELSE [dl EXCEPT !.pc = "decode"]
    /\ UNCHANGED notDl

\* the ranger is read: the pieces of the selected limits are downloaded
\* from their nodes and decoded, which takes k of them
DecodeRead ==
    /\ dl.pc = "decode"
    /\ LET got == dl.selected \ dl.stopped
       IN  dl' = [dl EXCEPT !.pc = "idle",
                    !.result = IF Cardinality(got) >= dl.red.k
                               THEN "ok" ELSE "error"]
    /\ UNCHANGED notDl

\* a node that was online when the limits were made stops
NodeStops ==
    /\ dl.pc \in {"select", "get", "decode"}
    /\ Cardinality(dl.stopped) < MaxStops
    /\ \E i \in dl.online \ dl.stopped :
        dl' = [dl EXCEPT !.stopped = @ \cup {i}]
    /\ UNCHANGED notDl

NextDownload ==
    \/ ReadSegment
    \/ SelectLimits
    \/ EcGet
    \/ DecodeRead
    \/ NodeStops

SpecDownload == InitDownload /\ [][NextDownload]_vars

(***************************************************************************)
(* Store.RecalculateSpaceUsedLive                                          *)
(***************************************************************************)
\* NewStore: InitSpaceUsedLive sums up the pieces on disk
InitSpace ==
    /\ snd = IdleSnd
    /\ cls = IdleCls
    /\ \E disk \in Disks :
        live = [IdleLive EXCEPT !.disk = disk, !.totalUsed = SpaceUsedSlow(disk)]
    /\ dl = IdleDl
    /\ gs = IdleGs
    /\ pointer = IdlePointer
    /\ reliable = Nodes
    /\ rep = IdleRep
    /\ runs = 0
    /\ env = 0
    /\ ver = IdleVer
    /\ ovl = IdleOvl
    /\ ord = IdleOrd
    /\ chk = IdleChk
    /\ cont = IdleCont
    /\ other = IdleOther
    /\ rv = IdleRv
    /\ ec = IdleEc
    /\ str = IdleStr
    /\ ns = IdleNs

\* RecalculateSpaceUsedLive saves the live values under the mutex
RecalcStart ==
    /\ live.pc = "idle"
    /\ live.recalcs < MaxRecalcs
    /\ live' = [live EXCEPT !.pc = "iterate", !.started = live.totalUsed,
                        !.next = 1, !.sum = 0, !.last = NoEstimate]
    /\ UNCHANGED notLive

\* SpaceUsedForPiecesAndBySatellitesSlow: the size of the next piece
RecalcIterate ==
    /\ live.pc = "iterate"
    /\ live.next <= NumSlots
    /\ live' = [live EXCEPT !.sum = @ + live.disk[live.next], !.next = @ + 1]
    /\ UNCHANGED notLive

\* estimateAndSave under the mutex, after the iteration
RecalcSave ==
    /\ live.pc = "iterate"
    /\ live.next > NumSlots
    /\ live' = [live EXCEPT
                !.pc = "idle", !.recalcs = @ + 1,
                !.totalUsed = estimateRecalculation(live.sum, live.started,
                                                    live.totalUsed),
                !.last = [done |-> TRUE, new |-> live.sum,
                          started |-> live.started, ended |-> live.totalUsed,
                          saved |-> estimateRecalculation(live.sum,
                                        live.started, live.totalUsed)]]
    /\ UNCHANGED notLive

\* a piece is committed: UpdateSpaceUsedLiveTotals(pieceSize)
PieceWrite ==
    /\ live.envs < MaxSpaceEnv
    /\ \E i \in Slots, size \in 1..MaxSize :
        /\ live.disk[i] = 0
        /\ live' = [live EXCEPT !.disk[i] = size, !.totalUsed = @ + size,
                            !.envs = @ + 1]
    /\ UNCHANGED notLive

\* Store.Delete: UpdateSpaceUsedLiveTotals(-pieceSize)
PieceDelete ==
    /\ live.envs < MaxSpaceEnv
    /\ \E i \in Slots :
        /\ live.disk[i] > 0
        /\ live' = [live EXCEPT !.disk[i] = 0, !.totalUsed = @ - live.disk[i],
                            !.envs = @ + 1]
    /\ UNCHANGED notLive

NextSpace ==
    \/ RecalcStart
    \/ RecalcIterate
    \/ RecalcSave
    \/ PieceWrite
    \/ PieceDelete

SpecSpace == InitSpace /\ [][NextSpace]_vars

(***************************************************************************)
(* One segment and one missing set, before the checker and the repairer    *)
(***************************************************************************)
InitClassify ==
    /\ snd = IdleSnd
    /\ \E red \in Schemes, numPieces \in 0..Total :
       \E numMissing \in 0..numPieces :
        cls = [IdleCls EXCEPT !.red = red, !.numPieces = numPieces,
                              !.numMissing = numMissing]
    /\ live = IdleLive
    /\ dl = IdleDl
    /\ gs = IdleGs
    /\ pointer = IdlePointer
    /\ reliable = Nodes
    /\ rep = IdleRep
    /\ runs = 0
    /\ env = 0
    /\ ver = IdleVer
    /\ ovl = IdleOvl
    /\ ord = IdleOrd
    /\ chk = IdleChk
    /\ cont = IdleCont
    /\ other = IdleOther
    /\ rv = IdleRv
    /\ ec = IdleEc
    /\ str = IdleStr
    /\ ns = IdleNs

\* checkerObserver.RemoteSegment on the segment
CheckerSees ==
    /\ cls.checker = "unseen"
    /\ cls' = [cls EXCEPT !.checker =
                CheckerVerdict(cls.numPieces - cls.numMissing, cls.numMissing,
                               cls.red)]
    /\ UNCHANGED notCls

\* SegmentRepairer.Repair on the segment, with the same missing pieces
RepairerSees ==
    /\ cls.repairer = "unseen"
    /\ cls' = [cls EXCEPT !.repairer =
                RepairerVerdict(cls.numPieces - cls.numMissing, cls.red)]
    /\ UNCHANGED notCls

NextClassify ==
    \/ CheckerSees
    \/ RepairerSees

SpecClassify == InitClassify /\ [][NextClassify]_vars

(***************************************************************************)
(* Sender.runOnce                                                          *)
(***************************************************************************)
\* the unsent orders: for each satellite none, or the number of responses
\* its settlement stream will give
InitSender ==
    /\ \E left \in [Sats -> (-1)..MaxResponses] :
        snd = [IdleSnd EXCEPT !.settle =
                [s \in Sats |-> IF left[s] < 0 THEN NoSettle
                                ELSE [pc |-> "listed", left |-> left[s]]]]
    /\ cls = IdleCls
    /\ live = IdleLive
    /\ dl = IdleDl
    /\ gs = IdleGs
    /\ pointer = IdlePointer
    /\ reliable = Nodes
    /\ rep = IdleRep
    /\ runs = 0
    /\ env = 0
    /\ ver = IdleVer
    /\ ovl = IdleOvl
    /\ ord = IdleOrd
    /\ chk = IdleChk
    /\ cont = IdleCont
    /\ other = IdleOther
    /\ rv = IdleRv
    /\ ec = IdleEc
    /\ str = IdleStr
    /\ ns = IdleNs

\* runOnce: ListUnsentBySatellite fails and runOnce returns nil, or the
\* channel is made and handleBatches and the Settle goroutines are started
RunOnceStart ==
    /\ snd.main = "idle"
    /\ \E ok \in BOOLEAN :
        snd' = IF ~ok THEN [snd EXCEPT !.main = "returned"]
               ELSE [snd EXCEPT
                        !.main = "wait settle", !.handler.pc = "receive",
                        !.settle = [s \in Sats |->
                            IF snd.settle[s].pc = "listed"
                            THEN [snd.settle[s] EXCEPT !.pc = "recv"]
                            ELSE snd.settle[s]]]
    /\ UNCHANGED notSnd

\* settle: the stream cannot be opened, Recv returns io.EOF or an error:
\* settle returns
SettleEnd ==
    /\ \E s \in Sats :
        /\ snd.settle[s].pc = "recv"
        /\ snd' = [snd EXCEPT !.settle[s].pc = "done"]
    /\ UNCHANGED notSnd

\* settle: Recv returns a response; an accepted or rejected one is to be
\* sent on requests, another status is only logged
SettleRecv ==
    /\ \E s \in Sats, known \in BOOLEAN :
        /\ snd.settle[s].pc = "recv"
        /\ snd.settle[s].left > 0
        /\ snd' = [snd EXCEPT !.settle[s].left = @ - 1,
                              !.settle[s].pc = IF known THEN "send" ELSE "recv"]
    /\ UNCHANGED notSnd

\* settle: requests <- ArchiveRequest{...}, which waits while the channel
\* is full
SettleSend ==
    /\ \E s \in Sats :
        /\ snd.settle[s].pc = "send"
        /\ snd.requests.len < BatchSize
        /\ snd' = [snd EXCEPT !.settle[s].pc = "recv",
                              !.requests.len = @ + 1, !.sent = @ + 1]
    /\ UNCHANGED notSnd

\* runOnce: group.Wait() has returned, or there were no orders:
\* close(requests)
RunOnceClose ==
    /\ snd.main = "wait settle"
    /\ \A s \in Sats : snd.settle[s].pc \in {"none", "done"}
    /\ snd' = [snd EXCEPT !.main = "wait batches", !.requests.closed = TRUE]
    /\ UNCHANGED notSnd

\* handleBatches: a request is received and appended to the buffer; a full
\* buffer is archived, and an error of Archive ends the loop
HandleRequest ==
    /\ snd.handler.pc = "receive"
    /\ snd.requests.len > 0
    /\ \E ok \in BOOLEAN :
        LET len == snd.requests.len - 1
            full == snd.handler.buffer + 1 >= BatchSize
        IN  snd' = [snd EXCEPT
                !.requests.len = len,
                !.handler = IF ~full THEN [@ EXCEPT !.buffer = @ + 1]
                            ELSE IF ok THEN [@ EXCEPT !.buffer = 0]
                            ELSE [pc |-> HandlerReturns(snd.requests.closed, len),
                                  buffer |-> 0, err |-> TRUE]]
    /\ UNCHANGED notSnd

\* handleBatches: the channel is closed and empty; what is left in the
\* buffer is archived and handleBatches returns
HandleClosed ==
    /\ snd.handler.pc = "receive"
    /\ snd.requests.len = 0 /\ snd.requests.closed
    /\ \E ok \in BOOLEAN :
        snd' = [snd EXCEPT !.handler =
                    [pc |-> HandlerReturns(TRUE, 0), buffer |-> 0,
                     err |-> snd.handler.buffer > 0 /\ ~ok]]
    /\ UNCHANGED notSnd

\* handleBatches' deferred function discards a request
HandleDiscard ==
    /\ snd.handler.pc = "drain"
    /\ snd.requests.len > 0
    /\ snd' = [snd EXCEPT !.requests.len = @ - 1]
    /\ UNCHANGED notSnd

\* handleBatches' deferred function finds the channel closed and empty
HandleDiscardEnd ==
    /\ snd.handler.pc = "drain"
    /\ snd.requests.len = 0 /\ snd.requests.closed
    /\ snd' = [snd EXCEPT !.handler.pc = "done"]
    /\ UNCHANGED notSnd

\* runOnce: batchGroup.Wait() returns
RunOnceReturn ==
    /\ snd.main = "wait batches"
    /\ snd.handler.pc = "done"
    /\ snd' = [snd EXCEPT !.main = "returned"]
    /\ UNCHANGED notSnd

NextSender ==
    \/ RunOnceStart
    \/ SettleEnd
    \/ SettleRecv
    \/ SettleSend
    \/ RunOnceClose
    \/ HandleRequest
    \/ HandleClosed
    \/ HandleDiscard
    \/ HandleDiscardEnd
    \/ RunOnceReturn

\* every goroutine that can take a step is scheduled in the end
SpecSender == InitSender /\ [][NextSender]_vars /\ WF_vars(NextSender)

(***************************************************************************)
(* Properties of the audit verifier                                        *)
(***************************************************************************)

\* C3: in every report that Verify returns without error the node sets
\* Successes, Fails, Offlines and the contained nodes (PendingAudits) are
\* pairwise disjoint and their union is the nodes of the segment's pieces
\* minus the skip set.
C3_ReportPartition ==
    (ver.pc = "done" /\ ver.err = "none") =>
        LET r == ver.report
        IN  /\ r.successes \cap r.fails = {}
            /\ r.successes \cap r.offlines = {}
            /\ r.successes \cap r.pending = {}
            /\ r.fails \cap r.offlines = {}
            /\ r.fails \cap r.pending = {}
            /\ r.offlines \cap r.pending = {}
            /\ r.successes \cup r.fails \cup r.offlines \cup r.pending
                   = NodesOf(ver.ptr.pieces) \ ver.skip

\* the step of Verify that looks for the segment after the download
DeletedCheckStep == ver.pc = "downloaded" /\ ver'.pc # "downloaded"
PointerChanged == ~pointer.exists \/ pointer.date # ver.ptr.date

AuditStep == ver.pc = "checked" /\ ver'.pc = "done"
SharesToAudit == {i \in ver.limits : ver.shares[i].err = NoError}

\* C14: when fewer than k shares were downloaded without error, Verify
\* returns the not-enough-shares error, reports the offline nodes, reports no
\* node as failed or successful and removes no piece from the pointer.
C14_NotEnoughShares ==
    [][(AuditStep /\ Cardinality(SharesToAudit) < ver.ptr.red.k) =>
        /\ ver'.err = "notenough"
        /\ getOfflineNodes(ver.ptr.pieces, ver.limits, ver.skip)
                \subseteq ver'.report.offlines
        /\ ver'.report.fails = {}
        /\ ver'.report.successes = {}
        /\ pointer' = pointer]_vars

\* C15: every node that Verify reports in Fails has its piece removed from
\* the pointer of the audited segment by the same call, on every return
\* path.
C15_FailsRemoved ==
    [][AuditStep =>
        \A nd \in ver'.report.fails :
            (pointer'.exists /\ pointer'.date = ver.ptr.date)
                => nd \notin NodesOf(pointer'.pieces)]_vars

\* the classification of a share by its error as the audit's contract has it
ContractClass(e) ==
    IF e = NoError THEN "audit"
    ELSE IF e.transport /\ e.ctxDeadline THEN "offline"
    ELSE IF e.transport THEN "contained"
    ELSE IF e.code = "NotFound" THEN "failed"
    ELSE "contained"

\* C16: Verify puts every downloaded share on exactly the list that the
\* contract names for its error (no error: audited; transport error with
\* dial timeout: offline; other transport error: contained; NOT_FOUND:
\* failed; DEADLINE_EXCEEDED and any other error: contained), and Reverify
\* gives the same error the same status.
C16_Classification ==
    \A i \in DOMAIN ver.shares :
        /\ ClassifyShare(ver.shares[i].err) = {ContractClass(ver.shares[i].err)}
        /\ ReverifyClassify(ver.shares[i].err) = ContractClass(ver.shares[i].err)

InitOverlay ==
    /\ snd = IdleSnd
    /\ cls = IdleCls
    /\ live = IdleLive
    /\ dl = IdleDl
    /\ gs = IdleGs
    /\ pointer = IdlePointer
    /\ reliable = Nodes
    /\ rep = IdleRep
    /\ runs = 0
    /\ env = 0
    /\ ver = IdleVer
    /\ \E cfg \in ReputationConfigs :
           ovl = [IdleOvl EXCEPT !.cfg = cfg, !.now = 1,
                                 !.stats = [n \in OvNodes |-> NewNodeStats(cfg)]]
    /\ ord = IdleOrd
    /\ chk = IdleChk
    /\ cont = IdleCont
    /\ other = IdleOther
    /\ rv = IdleRv
    /\ ec = IdleEc
    /\ str = IdleStr
    /\ ns = IdleNs

\* one more update call, at the next instant
OverlayCall(op, targets, err, stats) ==
    /\ ovl.now <= MaxUpdates
    /\ ovl' = [ovl EXCEPT !.now = ovl.now + 1, !.stats = stats,
                          !.last = [op |-> op, targets |-> targets, err |-> err]]
    /\ UNCHANGED notOverlay

\* cache.UpdateStats: an error for a node without dossier
UpdateStats ==
    \E nd \in OvNodes \cup {MissingNode}, isUp \in BOOLEAN, auditSuccess \in BOOLEAN :
        IF nd = MissingNode
        THEN OverlayCall("UpdateStats", {nd}, TRUE, ovl.stats)
        ELSE OverlayCall("UpdateStats", {nd}, FALSE,
                [ovl.stats EXCEPT ![nd] =
                    updateStats(ovl.stats[nd], isUp, auditSuccess, ovl.cfg, ovl.now)])

\* cache.UpdateUptime: an error for a node without dossier
UpdateUptime ==
    \E nd \in OvNodes \cup {MissingNode}, isUp \in BOOLEAN :
        IF nd = MissingNode
        THEN OverlayCall("UpdateUptime", {nd}, TRUE, ovl.stats)
        ELSE OverlayCall("UpdateUptime", {nd}, FALSE,
                [ovl.stats EXCEPT ![nd] =
                    updateUptime(ovl.stats[nd], isUp, ovl.cfg, ovl.now)])

\* cache.BatchUpdateStats: one or two requests in one call (requests for
\* different nodes commute, so they come in the order of the nodes)
BatchUpdateStats ==
    \E reqs \in {<<a>> : a \in UpdateRequests}
                    \cup {p \in UpdateRequests \X UpdateRequests :
                                p[1].node <= p[2].node} :
        OverlayCall("BatchUpdateStats", {reqs[i].node : i \in 1..Len(reqs)}, FALSE,
                    batchUpdateStats(ovl.stats, reqs, ovl.cfg, ovl.now))

\* Service.IsVetted for a node with a dossier
IsVettedCall ==
    /\ \E nd \in OvNodes :
        /\ ovl.asked # [node |-> nd, vetted |-> IsVetted(ovl.stats[nd])]
        /\ ovl' = [ovl EXCEPT !.asked = [node |-> nd, vetted |-> IsVetted(ovl.stats[nd])]]
    /\ UNCHANGED notOverlay

NextOverlay ==
    \/ UpdateStats
    \/ UpdateUptime
    \/ BatchUpdateStats

SpecOverlay == InitOverlay /\ [][NextOverlay]_vars

\* the reputation updates with questions to IsVetted in between
NextVetted ==
    \/ UpdateStats
    \/ UpdateUptime
    \/ BatchUpdateStats
    \/ IsVettedCall

SpecVetted == InitOverlay /\ [][NextVetted]_vars

(***************************************************************************)
(* Properties of the reputation updates                                    *)
(***************************************************************************)

\* C4: once a node is disqualified, no UpdateStats, BatchUpdateStats or
\* UpdateUptime call changes its auditAlpha, auditBeta, uptimeAlpha,
\* uptimeBeta or disqualifiedAt, and a call for that node returns no error.
C4_DisqualifiedNoOp ==
    [][\A nd \in OvNodes : ovl.stats[nd].disqualified # 0 =>
            /\ ovl'.stats[nd].auditAlpha = ovl.stats[nd].auditAlpha
            /\ ovl'.stats[nd].auditBeta = ovl.stats[nd].auditBeta
            /\ ovl'.stats[nd].uptimeAlpha = ovl.stats[nd].uptimeAlpha
            /\ ovl'.stats[nd].uptimeBeta = ovl.stats[nd].uptimeBeta
            /\ ovl'.stats[nd].disqualified = ovl.stats[nd].disqualified
            /\ (nd \in ovl'.last.targets => ~ovl'.last.err)]_vars

\* a batch has come for a node that an earlier call disqualified
C4_Witness ==
    /\ ovl.last.op = "BatchUpdateStats"
    /\ \E nd \in ovl.last.targets :
           /\ ovl.stats[nd].disqualified # 0
           /\ ovl.stats[nd].disqualified < ovl.now - 1

(***************************************************************************)
(* Storage node: requests with order limits                                *)
(***************************************************************************)

\* a storage node with its configuration; the satellite has signed one order
\* limit per serial
InitOrders ==
    /\ snd = IdleSnd
    /\ cls = IdleCls
    /\ live = IdleLive
    /\ dl = IdleDl
    /\ gs = IdleGs
    /\ pointer = IdlePointer
    /\ reliable = Nodes
    /\ rep = IdleRep
    /\ runs = 0
    /\ env = 0
    /\ ver = IdleVer
    /\ ovl = IdleOvl
    /\ \E cfg \in OrderConfigs, limits \in [Serials -> OrderLimits] :
           ord = [IdleOrd EXCEPT !.cfg = cfg, !.limits = limits, !.now = 1]
    /\ chk = IdleChk
    /\ cont = IdleCont
    /\ other = IdleOther
    /\ rv = IdleRv
    /\ ec = IdleEc
    /\ str = IdleStr
    /\ ns = IdleNs

\* a request arrives with the order limit of a serial: verifyOrderLimit
OrderSubmit ==
    /\ \E serial \in Serials, fault \in LimitFaults :
        LET limit == ord.limits[serial]
            result == verifyOrderLimit(serial, limit, fault, ord.now, ord.cfg, ord.used)
        IN  /\ ord.accepted[serial] < MaxAccepts
            /\ ord' = [ord EXCEPT
                    !.used = IF result = "ok"
                             THEN ord.used \cup
                                    {[serial |-> serial,
                                      expiration |-> SerialExpiration(limit, ord.now, ord.cfg)]}
                             ELSE ord.used,
                    !.accepted[serial] = IF result = "ok" THEN @ + 1 ELSE @,
                    !.last = [serial |-> serial, result |-> result]]
    /\ UNCHANGED notOrders

\* time passes on the storage node
OrderTick ==
    /\ ord.now < MaxTime
    /\ ord' = [ord EXCEPT !.now = ord.now + 1]
    /\ UNCHANGED notOrders

\* the collector deletes the expired used serials
OrderDeleteExpired ==
    /\ DeleteExpiredEntries(ord.used, ord.now) # ord.used
    /\ ord' = [ord EXCEPT !.used = DeleteExpiredEntries(ord.used, ord.now)]
    /\ UNCHANGED notOrders

NextOrders ==
    \/ OrderSubmit
    \/ OrderTick
    \/ OrderDeleteExpired

SpecOrders == InitOrders /\ [][NextOrders]_vars

(***************************************************************************)
(* Storage node: the orders of one upload or download stream               *)
(***************************************************************************)

\* a storage node with no stream
InitStream ==
    /\ snd = IdleSnd
    /\ cls = IdleCls
    /\ live = IdleLive
    /\ dl = IdleDl
    /\ gs = IdleGs
    /\ pointer = IdlePointer
    /\ reliable = Nodes
    /\ rep = IdleRep
    /\ runs = 0
    /\ env = 0
    /\ ver = IdleVer
    /\ ovl = IdleOvl
    /\ ord = IdleOrd
    /\ chk = IdleChk
    /\ cont = IdleCont
    /\ other = IdleOther
    /\ rv = IdleRv
    /\ ec = IdleEc
    /\ str = IdleStr
    /\ ns = IdleNs

\* a request whose order limit passed verifyOrderLimit opens the stream
StreamOpen ==
    /\ str.pc = "idle"
    /\ \E limit \in StreamLimits :
        str' = [IdleStr EXCEPT !.pc = "open", !.limit = limit]
    /\ UNCHANGED notStream

\* a message with an order: VerifyOrder against the largest order so far; the
\* order becomes the largest one, or the stream ends with the error
StreamOrder ==
    /\ str.pc = "open"
    /\ str.received < MaxOrders
    /\ \E order \in Orders, signed \in BOOLEAN :
        LET result == VerifyOrder(str.limit, order, str.largestOrder.Amount, signed)
        IN  str' = [str EXCEPT
                      !.received = @ + 1, !.order = order, !.result = result,
                      !.largestOrder = IF result = "ok" THEN order ELSE @,
                      !.accepted = IF result = "ok" THEN Append(@, order.Amount) ELSE @,
                      !.pc = IF result = "ok" THEN "open" ELSE "failed"]
    /\ UNCHANGED notStream

\* the stream ends: the largest order is the one saved for settlement
StreamClose ==
    /\ str.pc = "open"
    /\ str' = [str EXCEPT !.pc = "closed", !.saved = str.largestOrder]
    /\ UNCHANGED notStream

NextStream ==
    \/ StreamOpen
    \/ StreamOrder
    \/ StreamClose

SpecStream == InitStream /\ [][NextStream]_vars

(***************************************************************************)
(* Properties of the order verification                                    *)
(***************************************************************************)

\* C5: verifyOrderLimit accepts at most one request per serial, also after
\* the used-serial entry of the serial has expired and was deleted; every
\* further request with the serial is rejected.
C5_SerialOnce ==
    \A sn \in Serials : ord.accepted[sn] <= 1

(***************************************************************************)
(* Segment-health checker: the observer of the metainfo loop               *)
(***************************************************************************)

\* a remote segment of some redundancy; repair queue and irreparable DB empty
InitChecker ==
    /\ snd = IdleSnd
    /\ cls = IdleCls
    /\ live = IdleLive
    /\ dl = IdleDl
    /\ gs = IdleGs
    /\ \E red \in Schemes :
           pointer = [exists |-> TRUE, remote |-> TRUE, date |-> 1, red |-> red,
                      pieces |-> InitPieces]
    /\ reliable = Nodes
    /\ rep = IdleRep
    /\ runs = 0
    /\ env = 0
    /\ ver = IdleVer
    /\ ovl = IdleOvl
    /\ ord = IdleOrd
    /\ chk = IdleChk
    /\ cont = IdleCont
    /\ other = IdleOther
    /\ rv = IdleRv
    /\ ec = IdleEc
    /\ str = IdleStr
    /\ ns = IdleNs

\* checkerObserver.RemoteSegment on the segment as the loop reads it: with
\* numPieces of its pieces left, numOffline of them on nodes that are not
\* reliable, and at most one of the store calls failing
RemoteSegment ==
    /\ chk.checks < MaxChecks
    /\ \E numPieces \in 0..Total :
       \E numOffline \in 0..numPieces :
       \E fails \in CheckerFailures(numPieces - numOffline, pointer.red) :
        LET pieces == [i \in PieceNums |-> IF i < numPieces THEN InitPieces[i] ELSE NoNode]
            rel == Nodes \ {InitPieces[i] : i \in {j \in PieceNums : j < numOffline}}
            missingPieces == GetMissingPieces(pieces, rel)
            numHealthy == NumPieces(pieces) - Cardinality(missingPieces)
            red == pointer.red
            seen == [numPieces |-> NumPieces(pieces),
                     numMissing |-> Cardinality(missingPieces),
                     fails |-> fails, calls |-> {}, irrBefore |-> chk.irrdb.attempts,
                     ret |-> "nil"]
            done(queue, irrdb, calls, ret) ==
                chk' = [chk EXCEPT !.checks = chk.checks + 1,
                                   !.queue = queue, !.irrdb = irrdb,
                                   !.last = [seen EXCEPT !.calls = calls, !.ret = ret]]
        IN  IF NumPieces(pieces) = 0
            THEN done(chk.queue, chk.irrdb, {}, "nil")
            ELSE IF fails = "MissingPieces"
            THEN done(chk.queue, chk.irrdb, {"MissingPieces"}, "error")
            ELSE IF IsInjured(numHealthy, red)
            THEN IF Cardinality(missingPieces) = 0
                 THEN done(chk.queue, chk.irrdb, {"MissingPieces"}, "nil")
                 ELSE IF fails = "Insert"
                 THEN done(chk.queue, chk.irrdb, {"MissingPieces", "Insert"}, "nil")
                 ELSE IF fails = "Delete"
                 THEN done({missingPieces}, chk.irrdb,
                           {"MissingPieces", "Insert", "Delete"}, "nil")
                 ELSE done({missingPieces}, NoIrreparable,
                           {"MissingPieces", "Insert", "Delete"}, "nil")
            ELSE IF IsLost(numHealthy, red)
            THEN IF fails = "IncrementRepairAttempts"
                 THEN done(chk.queue, chk.irrdb,
                           {"MissingPieces", "IncrementRepairAttempts"}, "nil")
                 ELSE done(chk.queue,
                           IncrementRepairAttempts(chk.irrdb, Cardinality(missingPieces)),
                           {"MissingPieces", "IncrementRepairAttempts"}, "nil")
            ELSE done(chk.queue, chk.irrdb, {"MissingPieces"}, "nil")
    /\ UNCHANGED <<pointer, reliable>>
    /\ UNCHANGED notChecker

\* the repairer takes the injured segment off the repair queue
QueueSelect ==
    /\ chk.queue # {}
    /\ chk' = [chk EXCEPT !.queue = {}]
    /\ UNCHANGED <<pointer, reliable>>
    /\ UNCHANGED notChecker

NextChecker ==
    \/ RemoteSegment
    \/ QueueSelect

SpecChecker == InitChecker /\ [][NextChecker]_vars

(***************************************************************************)
(* Properties of the segment-health checker                                *)
(***************************************************************************)

\* the observer's step and what it saw
ObserveStep == chk'.checks = chk.checks + 1
SeenHealthy(c) == c.last.numPieces - c.last.numMissing
SeenInjured(c) ==
    /\ pointer.red.k < SeenHealthy(c) /\ SeenHealthy(c) <= pointer.red.r
    /\ SeenHealthy(c) < pointer.red.s /\ c.last.numMissing > 0
SeenLost(c) ==
    SeenHealthy(c) <= pointer.red.k /\ SeenHealthy(c) < pointer.red.r

\* C6: for a remote segment with pieces whose missing pieces were read, the
\* observer inserts the path into the repair queue exactly when
\* k < numHealthy <= r, numHealthy < s and missing is non-empty, and with
\* the path enqueued its irreparable record is deleted; it upserts the
\* irreparable record exactly when numHealthy <= k and numHealthy < r;
\* otherwise it calls and changes neither store.  With k = r = s nothing is
\* ever enqueued.
C6_Classification ==
    /\ [][(ObserveStep /\ chk'.last.numPieces > 0 /\ chk'.last.fails # "MissingPieces") =>
            /\ ("Insert" \in chk'.last.calls) <=> SeenInjured(chk')
            /\ ("IncrementRepairAttempts" \in chk'.last.calls) <=> SeenLost(chk')
            /\ ("Delete" \in chk'.last.calls) <=>
                    (SeenInjured(chk') /\ chk'.last.fails # "Insert")
            /\ (chk'.last.fails = "none" =>
                    /\ SeenInjured(chk') =>
                            chk'.queue # {} /\ chk'.irrdb = NoIrreparable
                    /\ ~SeenInjured(chk') => chk'.queue = chk.queue
                    /\ SeenLost(chk') <=> chk'.irrdb.attempts = chk.irrdb.attempts + 1)
            /\ (~SeenInjured(chk') /\ ~SeenLost(chk') =>
                    /\ chk'.queue = chk.queue /\ chk'.irrdb = chk.irrdb
                    /\ chk'.last.calls = {"MissingPieces"})]_vars
    /\ []((pointer.red.k = pointer.red.r /\ pointer.red.r = pointer.red.s) =>
            chk.queue = {} /\ "Insert" \notin chk.last.calls)

\* a segment that had an irreparable record is found injured: it is enqueued
\* and the record is gone
C6_Witness ==
    /\ chk.last.irrBefore > 0 /\ {"Insert", "Delete"} \subseteq chk.last.calls
    /\ chk.last.fails = "none"
    /\ chk.queue # {} /\ chk.irrdb = NoIrreparable

(***************************************************************************)
(* Properties of Reverify and of the audit fan-outs                        *)
(***************************************************************************)

ShareStep(i) == rv.g[i].pc = "download" /\ rv'.g[i].pc # "download"
RemoveStep(i) == rv.g[i].pc = "remove" /\ rv'.g[i].pc = "end"
InNoList(nd) ==
    nd \notin rv.report.successes \cup rv.report.fails
                \cup rv.report.offlines \cup rv.report.pending
\* the segment of a pending audit was deleted or overwritten since the
\* record was made
DeletedSince(p) == ~PointerAt(p.path).exists \/ PointerAt(p.path).date # p.date

\* C18: a node whose pending audit is absent at the lookup, or is cleared
\* while its share is downloaded, is skipped: whatever the download returns
\* the node is on none of the report's lists and no piece is removed from a
\* pointer for it.
C18_SkippedPending ==
    /\ [][(rv.pc = "idle" /\ rv'.pc # "idle") =>
            \A i \in PiecesOf(pointer.pieces) :
                ~cont[pointer.pieces[i]].present =>
                    /\ rv'.g[i].pc = "end"
                    /\ rv'.g[i].status \in {"skipped", "erred"}]_vars
    /\ [][\A i \in PieceNums :
            (ShareStep(i) /\ ~cont[rv.ptr.pieces[i]].present) =>
                /\ rv'.g[i].pc = "end"
                /\ rv'.g[i].status \in {"skipped", "erred"}
                /\ pointer' = pointer /\ other' = other]_vars
    /\ [][\A i \in PieceNums : RemoveStep(i) => rv.g[i].status = "none"]_vars
    /\ [](\A i \in PieceNums :
            rv.g[i].status \in {"skipped", "erred"} => InNoList(rv.ptr.pieces[i]))

\* the pending audit of a node was there at the lookup and cleared during
\* the download; Reverify returned without the node on a list
C18_Witness ==
    /\ rv.pc = "done"
    /\ \E i \in PiecesOf(rv.ptr.pieces) :
        /\ rv.g[i].pending.present /\ rv.g[i].status = "skipped"
        /\ ~cont[rv.ptr.pieces[i]].present
        /\ InNoList(rv.ptr.pieces[i])

\* C19: when the node answers NOT_FOUND, Reverify reports it success exactly
\* when the segment of the pending audit was deleted since the record was
\* made, and otherwise removes its piece from that segment's pointer and
\* reports it failed, also for a pending audit that names another segment
\* than the stripe's.
C19_NotFound ==
    /\ [][\A i \in PieceNums :
            (ShareStep(i) /\ rv'.g[i].answer = "notfound") =>
                IF DeletedSince(rv.g[i].pending)
                THEN rv'.g[i].status = "success"
                ELSE rv'.g[i].pc = "remove"]_vars
    /\ [][\A i \in PieceNums :
            (RemoveStep(i) /\ rv.g[i].answer = "notfound") =>
                /\ rv'.g[i].status = "failed"
                /\ ~DeletedSince(rv.g[i].pending) =>
                        rv.ptr.pieces[i] \notin
                            NodesOf(PointerAt(rv.g[i].pending.path).pieces)']_vars

\* C20: after a successful download Reverify reports the node success when
\* the hash of the share is the expected one; on a mismatch it reports
\* success when the segment was deleted since the pending audit was made,
\* and otherwise removes the piece and reports the node failed.
C20_HashCheck ==
    /\ [][\A i \in PieceNums :
            (ShareStep(i) /\ rv'.g[i].answer = "match") =>
                rv'.g[i].status = "success"]_vars
    /\ [][\A i \in PieceNums :
            (ShareStep(i) /\ rv'.g[i].answer = "mismatch") =>
                IF DeletedSince(rv.g[i].pending)
                THEN rv'.g[i].status = "success"
                ELSE rv'.g[i].pc = "remove"]_vars
    /\ [][\A i \in PieceNums :
            (RemoveStep(i) /\ rv.g[i].answer = "mismatch") =>
                /\ rv'.g[i].status = "failed"
                /\ ~DeletedSince(rv.g[i].pending) =>
                        rv.ptr.pieces[i] \notin
                            NodesOf(PointerAt(rv.g[i].pending.path).pieces)']_vars

\* the step of the goroutine of piece i that asks for the order limit
LimitStep(i) == rv.g[i].pc = "limit" /\ rv'.g[i].pc # "limit"

EcReturned(op) == ec.op = op /\ ec.pc = "done" /\ ec.result # "refused"

\* C22: Put fails exactly when the number of successful uploads is at most
\* r and below s; with more than r successful uploads it returns the
\* successful nodes and hashes without error.
C22_PutThreshold ==
    (EcReturned("put") /\ ~ec.ctxCancelled) =>
        /\ (ec.result = "error") <=> (ec.count <= ec.rs.r /\ ec.count < ec.rs.s)
        /\ ec.count > ec.rs.r =>
                /\ ec.result = "ok"
                /\ ec.retNodes = ec.nodes /\ ec.retHashes = ec.hashes

\* the collector of an upload call takes an info
CollectStep == ec.op \in {"put", "repair"} /\ ec'.got # ec.got

\* C23: once the count of successful uploads of Put reaches s the uploads
\* still outstanding are cancelled, and in the arrays Put returns every slot
\* whose upload failed, was cancelled or had a nil limit is nil, while every
\* slot of a successful upload holds the node of the limit at that index.
C23_PutSlots ==
    /\ [][(CollectStep /\ ec.op = "put" /\ ec'.count >= ec.rs.s) =>
            ec'.psCancelled]_vars
    /\ []((EcReturned("put") /\ ec.result = "ok") =>
            \A i \in EcSlots :
                /\ ec.g[i].how \in {"nil", "failed", "cancelled"} =>
                        ec.retNodes[i] = NoNode /\ i \notin ec.retHashes
                /\ ec.g[i].how = "committed" =>
                        ec.retNodes[i] = LimitNode(i) /\ i \in ec.retHashes)

\* C24: the outstanding uploads of Repair are cancelled only when the timer
\* fires or the caller cancels, not when s uploads have succeeded; Repair
\* returns every upload that was committed, and it fails only when no upload
\* succeeded or the caller cancelled.
C24_RepairTimeout ==
    /\ [][(ec.op = "repair" /\ ~ec.psCancelled /\ ec'.psCancelled) =>
            \/ (~ec.timerFired /\ ec'.timerFired)
            \/ (~ec.ctxCancelled /\ ec'.ctxCancelled)]_vars
    /\ [](EcReturned("repair") =>
            /\ ec.result = "error" <=> (ec.count = 0 \/ ec.ctxCancelled)
            /\ ec.result = "ok" =>
                    \A i \in EcSlots :
                        ec.g[i].how = "committed" =>
                            ec.retNodes[i] = LimitNode(i) /\ i \in ec.retHashes)

\* a Repair whose timer cut off an upload after s others were committed
\* returned the committed ones
C24_Witness ==
    /\ EcReturned("repair") /\ ec.result = "ok"
    /\ ec.timerFired /\ ~ec.ctxCancelled
    /\ Cardinality({i \in EcSlots : ec.g[i].how = "committed"}) >= ec.rs.s
    /\ \E i \in ec.limits :
        ec.g[i].how = "cancelled" /\ ec.g[i].err /\ ec.retNodes[i] = NoNode
    /\ \A i \in EcSlots : ec.g[i].how = "committed" => ec.retNodes[i] = LimitNode(i)

\* C25: Delete returns an error exactly when every deletion it started has
\* failed; a nil limit starts no deletion, and a failure of only some of the
\* deletions is ignored.
C25_DeleteAllFail ==
    (ec.op = "delete" /\ ec.pc = "done") =>
        (ec.result = "error" <=>
            (ec.limits # {} /\ \A i \in ec.limits : ec.g[i].err))

(***************************************************************************)
(* Properties of the orders of a stream                                    *)
(***************************************************************************)

\* an order has been received in this step
OrderStep == str'.received # str.received

\* C26: VerifyOrder rejects an order whose serial is not the limit's, whose
\* amount is smaller than the largest amount accepted so far, or whose amount
\* is more than the limit allows; so the amounts of the orders accepted on a
\* stream never decrease and never exceed the limit.
C26_OrderAmounts ==
    /\ [][OrderStep =>
            LET order == str'.order
                rejects == \/ order.SerialNumber # str.limit.SerialNumber
                           \/ order.Amount < str.largestOrder.Amount
                           \/ order.Amount > str.limit.Limit
            IN  /\ rejects => str'.result # "ok"
                /\ str'.result # "ok" =>
                        str'.accepted = str.accepted /\ str'.largestOrder = str.largestOrder
                /\ str'.result = "ok" => str'.largestOrder = order]_vars
    /\ [](/\ \A i \in 1..Len(str.accepted) :
                /\ str.accepted[i] <= str.limit.Limit
                /\ i > 1 => str.accepted[i - 1] <= str.accepted[i]
          /\ str.pc = "closed" /\ str.accepted # <<>> =>
                str.saved.Amount = str.accepted[Len(str.accepted)])

\* after two accepted orders of growing amounts, the second for all that the
\* limit allows, an order for less was rejected
C26_Witness ==
    /\ str.pc = "failed"
    /\ Len(str.accepted) = 2
    /\ str.accepted[1] < str.accepted[2]
    /\ str.accepted[2] = str.limit.Limit
    /\ str.order.SerialNumber = str.limit.SerialNumber
    /\ str.order.Amount < str.accepted[2]
    /\ str.result = "order contained smaller amount"

(***************************************************************************)
(* Properties of the reputation updates: scores and vetting                *)
(***************************************************************************)

\* an update call has changed the dossier of nd by one uptime observation
ObservedOnce(nd) ==
    /\ ovl.stats[nd].disqualified = 0
    /\ ovl'.stats[nd].uptimeCount = ovl.stats[nd].uptimeCount + 1

\* alpha' = lambda * alpha + w * success, beta' = lambda * beta + w * (1 - success)
FollowsUpdateRule(alpha, beta, alpha2, beta2, cfg) ==
    \E success \in {0, 1} :
        /\ alpha2 * cfg.lambdaDen =
                cfg.lambdaNum * alpha + cfg.weight * success * Unit * cfg.lambdaDen
        /\ beta2 * cfg.lambdaDen =
                cfg.lambdaNum * beta + cfg.weight * (1 - success) * Unit * cfg.lambdaDen

\* the score alpha / (alpha + beta) is strictly below DQ
ScoreBelowDQ(alpha, beta, cfg) ==
    alpha * cfg.dqDen < cfg.dqNum * (alpha + beta)

\* C27: an audit or uptime observation on a node that is not disqualified
\* sets alpha' = lambda * alpha + w * success and beta' = lambda * beta +
\* w * (1 - success), and the node is disqualified exactly when a resulting
\* score alpha' / (alpha' + beta') is strictly below DQ.
C27_UpdateRule ==
    [][\A nd \in OvNodes : ObservedOnce(nd) =>
        LET old == ovl.stats[nd]
            new == ovl'.stats[nd]
            audited == new.auditCount # old.auditCount
        IN  /\ FollowsUpdateRule(old.uptimeAlpha, old.uptimeBeta,
                                 new.uptimeAlpha, new.uptimeBeta, ovl.cfg)
            /\ IF audited
               THEN FollowsUpdateRule(old.auditAlpha, old.auditBeta,
                                      new.auditAlpha, new.auditBeta, ovl.cfg)
               ELSE new.auditAlpha = old.auditAlpha /\ new.auditBeta = old.auditBeta
            /\ new.disqualified # 0 <=>
                    \/ ScoreBelowDQ(new.uptimeAlpha, new.uptimeBeta, ovl.cfg)
                    \/ audited /\ ScoreBelowDQ(new.auditAlpha, new.auditBeta, ovl.cfg)]_vars

\* the configuration of the cache test: alpha0 = 1, beta0 = 0, lambda = 1,
\* w = 1 and DQ = 0.5
IsTestConfig(cfg) ==
    /\ cfg.lambdaNum = cfg.lambdaDen /\ cfg.weight = 1
    /\ cfg.alpha0 = 1 /\ cfg.beta0 = 0
    /\ 2 * cfg.dqNum = cfg.dqDen

\* the score alpha / (alpha + beta) is equal to DQ
ScoreEqualsDQ(alpha, beta, cfg) ==
    alpha * cfg.dqDen = cfg.dqNum * (alpha + beta)

\* C28: a node whose score is equal to DQ after an update is disqualified;
\* with alpha0 = 1, beta0 = 0, lambda = 1, w = 1 and DQ = 0.5 one failed
\* audit leaves auditAlpha = 1 and auditBeta = 1 and disqualifies the node,
\* and one failed uptime check leaves uptimeAlpha = 1 and uptimeBeta = 1 and
\* disqualifies it.
C28_EqualDisqualifies ==
    [][\A nd \in OvNodes : ObservedOnce(nd) =>
        LET old == ovl.stats[nd]
            new == ovl'.stats[nd]
            audited == new.auditCount # old.auditCount
            fresh == IsTestConfig(ovl.cfg) /\ old = NewNodeStats(ovl.cfg)
        IN  /\ ScoreEqualsDQ(new.uptimeAlpha, new.uptimeBeta, ovl.cfg)
                    => new.disqualified = ovl.now
            /\ audited /\ ScoreEqualsDQ(new.auditAlpha, new.auditBeta, ovl.cfg)
                    => new.disqualified = ovl.now
            /\ fresh /\ audited /\ new.auditBeta > old.auditBeta =>
                    /\ new.auditAlpha = Unit /\ new.auditBeta = Unit
                    /\ new.disqualified # 0
            /\ fresh /\ new.uptimeBeta > old.uptimeBeta =>
                    /\ new.uptimeAlpha = Unit /\ new.uptimeBeta = Unit
                    /\ new.disqualified # 0]_vars

\* the two nodes of the cache test: one disqualified by a failed audit with
\* a good uptime check, the other by a failed uptime check alone
C28_Witness ==
    /\ IsTestConfig(ovl.cfg)
    /\ \E a, b \in OvNodes :
        /\ ovl.stats[a].auditAlpha = Unit /\ ovl.stats[a].auditBeta = Unit
        /\ ovl.stats[a].uptimeAlpha = 2 * Unit /\ ovl.stats[a].uptimeBeta = 0
        /\ ovl.stats[a].disqualified # 0
        /\ ovl.stats[b].auditAlpha = Unit /\ ovl.stats[b].auditBeta = 0
        /\ ovl.stats[b].uptimeAlpha = Unit /\ ovl.stats[b].uptimeBeta = Unit
        /\ ovl.stats[b].disqualified # 0

\* C29: under every configured lambda and w none of auditAlpha, auditBeta,
\* uptimeAlpha and uptimeBeta of a node ever decreases, and disqualifiedAt
\* never changes once it is set.
C29_Monotone ==
    [][\A nd \in OvNodes :
        LET old == ovl.stats[nd]
            new == ovl'.stats[nd]
        IN  /\ new.auditAlpha >= old.auditAlpha
            /\ new.auditBeta >= old.auditBeta
            /\ new.uptimeAlpha >= old.uptimeAlpha
            /\ new.uptimeBeta >= old.uptimeBeta
            /\ old.disqualified # 0 => new.disqualified = old.disqualified]_vars

\* C29, for what holds: with lambda = 1 none of auditAlpha, auditBeta,
\* uptimeAlpha and uptimeBeta of a node ever decreases (with lambda < 1 the
\* update scales them down before it adds the weight), and under every
\* configuration disqualifiedAt never changes once it is set.
C29_MonotoneUndecayed ==
    [][\A nd \in OvNodes :
        LET old == ovl.stats[nd]
            new == ovl'.stats[nd]
        IN  /\ ovl.cfg.lambdaNum = ovl.cfg.lambdaDen =>
                /\ new.auditAlpha >= old.auditAlpha
                /\ new.auditBeta >= old.auditBeta
                /\ new.uptimeAlpha >= old.uptimeAlpha
                /\ new.uptimeBeta >= old.uptimeBeta
            /\ old.disqualified # 0 => new.disqualified = old.disqualified]_vars

\* with lambda = 1 the reputation of one node has grown, and another node
\* was disqualified by an earlier call and named again by the last one
C29_Witness ==
    /\ ovl.cfg.lambdaNum = ovl.cfg.lambdaDen
    /\ \E a, b \in OvNodes :
        /\ ovl.stats[a].auditAlpha > ovl.cfg.alpha0 * Unit
        /\ ovl.stats[a].uptimeAlpha > ovl.cfg.alpha0 * Unit
        /\ b \in ovl.last.targets
        /\ ovl.stats[b].disqualified # 0
        /\ ovl.stats[b].disqualified < ovl.now - 1
        /\ ovl.stats[b].auditBeta > ovl.cfg.beta0 * Unit

\* C30: a node with auditCount >= Av and uptimeCount >= Uv is reported
\* vetted, and a node that is reported vetted is reported vetted after every
\* later reputation update.
C30_VettedOneWay ==
    /\ [](\A nd \in OvNodes :
            (ovl.stats[nd].auditCount >= AuditCount
                /\ ovl.stats[nd].uptimeCount >= UptimeCount)
            => IsVetted(ovl.stats[nd]))
    /\ [][\A nd \in OvNodes :
            IsVetted(ovl.stats[nd]) => IsVetted(ovl'.stats[nd])]_vars

\* IsVetted has answered for nd in this step
AskedStep(nd) == ovl'.asked # ovl.asked /\ ovl'.asked.node = nd

\* C31: IsVetted is true for a node with at least AuditCount audits and
\* UptimeCount uptime checks that is not disqualified, false for a node with
\* fewer of either, and false for a node disqualified for its uptime or for
\* its audits, whatever its counts.
C31_IsVetted ==
    [][\A nd \in OvNodes : AskedStep(nd) =>
        LET st == ovl.stats[nd]
            enough == st.auditCount >= AuditCount /\ st.uptimeCount >= UptimeCount
        IN  /\ enough /\ st.disqualified = 0 => ovl'.asked.vetted
            /\ ~enough => ~ovl'.asked.vetted
            /\ st.disqualified # 0 => ~ovl'.asked.vetted]_vars

\* IsVetted has answered no for a node with enough audits and uptime checks
\* that a failed uptime check disqualified, its audits all good
C31_Witness ==
    /\ ovl.asked.node \in OvNodes
    /\ ~ovl.asked.vetted
    /\ LET st == ovl.stats[ovl.asked.node]
       IN  /\ st.auditCount >= AuditCount /\ st.uptimeCount >= UptimeCount
           /\ st.disqualified # 0
           /\ st.auditBeta = 0
           /\ st.uptimeBeta > 0

(***************************************************************************)
(* Properties of the checker's loops over a namespace                      *)
(***************************************************************************)

\* the scanner has handled a record in this step
RecordStep == ns.scan.pc = "page" /\ ns'.scan.visited # ns.scan.visited

\* a path has an item in the repair queue
Queued(queue, p) == \E i \in 1..Len(queue) : queue[i].path = p

C33_SecondPass ==
    /\ [][(ns.pass.pc = "running" /\ ns.pass.past /\ ns'.pass # ns.pass)
            => ns'.queue = ns.queue]_vars
    /\ [](\A i, j \in 1..Len(ns.queue) :
            ns.queue[i].path = ns.queue[j].path => i = j)
    /\ [](ns.pass.past =>
            \A p \in Paths :
                (ns.seg[p].exists /\ ns.seg[p].off > 0
                    /\ IsInjured(ns.seg[p].np - ns.seg[p].off, ns.red))
                => \E i \in 1..Len(ns.queue) :
                        ns.queue[i] = [path |-> p, lost |-> ns.seg[p].off])

\* two passes over the same namespace have ended, every path in it injured
\* and queued
C33_Witness ==
    /\ ns.pass.pc = "idle" /\ ns.pass.runs = 2 /\ ns.pass.past
    /\ ns.envs = 0 /\ ns.scan.runs = 0 /\ ns.scan.pc = "idle"
    /\ Len(ns.queue) = NumPaths
    /\ \A p \in Paths : ns.seg[p].exists /\ Queued(ns.queue, p)

\* C39: after a complete pass of the health observer and then a complete
\* run of the irreparable scanner, with no change to the pointers or to the
\* reliable nodes in between, every record of the irreparable store belongs
\* to a segment that exists and is irreparable now.
C39_RecordsCurrent ==
    (/\ ns.scan.pc = "idle" /\ ns.scan.result = "nil"
     /\ ns.scan.after /\ ns.scan.stable /\ ns.scan.errors = 0)
    => \A p \in Paths :
        ns.irrdb[p].present =>
            /\ ns.seg[p].exists
            /\ IsLost(ns.seg[p].np - ns.seg[p].off, ns.red)

(***************************************************************************)
(* Properties of Verifier.GetShare                                         *)
(***************************************************************************)
\* a share download is under way
Downloading == gs.pc \in {"dial", "download", "read"}

\* C34: every share download of GetShare runs under a timeout of
\* max(shareSize / minBytesPerSecond, minDownloadTimeout), whatever the
\* configuration of minBytesPerSecond and minDownloadTimeout.
C34_AsStated ==
    Downloading =>
        /\ gs.timedCtx.timed
        /\ gs.timedCtx.timeout >= gs.cfg.minDownloadTimeout

\* C34, for what holds: with minBytesPerSecond > 0 the download runs under
\* a timeout d that is max(t, minDownloadTimeout), t being the whole number
\* of units of shareSize / minBytesPerSecond seconds; with
\* minBytesPerSecond <= 0 GetShare sets no timeout.
C34_Deadline ==
    Downloading =>
        LET b == gs.cfg.minBytesPerSecond
            d == gs.timedCtx.timeout
            whole(t) == t * b <= Second * gs.shareSize
                        /\ Second * gs.shareSize < (t + 1) * b
        IN  IF b > 0
            THEN /\ gs.timedCtx.timed
                 /\ d >= gs.cfg.minDownloadTimeout
                 /\ d > gs.cfg.minDownloadTimeout => whole(d)
                 /\ d = gs.cfg.minDownloadTimeout =>
                        \E t \in 0..d : whole(t)
            ELSE ~gs.timedCtx.timed

\* a download under a timeout that is the transfer time, above the floor
C34_Witness ==
    /\ gs.pc = "read"
    /\ gs.cfg.minBytesPerSecond = MaxRate
    /\ gs.cfg.minDownloadTimeout = 2
    /\ gs.shareSize = MaxShareSize
    /\ gs.timedCtx = WithTimeout(4)
    /\ gs.calls = 1

(***************************************************************************)
(* Properties of the uplink's segment download                             *)
(***************************************************************************)
\* C35: a segment download succeeds whenever at least k of the segment's
\* pieces are on online nodes: segmentStore.Get hands the erasure client
\* min(CalcNeededNodes, number of non-nil limits) limits, CalcNeededNodes is
\* at least k and at most n, and ecClient.Get accepts the limits when at
\* least k of them are non-nil.
C35_Download ==
    /\ dl.red.k <= CalcNeededNodes(dl.red)
    /\ CalcNeededNodes(dl.red) <= dl.red.n
    /\ dl.pc \in {"get", "decode"} =>
        /\ dl.selected \subseteq dl.limits
        /\ Cardinality(dl.selected) =
                Min(CalcNeededNodes(dl.red), Cardinality(dl.limits))
    /\ dl.pc = "decode" => Cardinality(dl.selected) >= dl.red.k
    /\ (dl.result = "error" /\ dl.stopped = {}) =>
            Cardinality(dl.selected) < dl.red.k
    /\ (dl.result # "none" /\ dl.stopped = {}
            /\ Cardinality(dl.online) >= dl.red.k) => dl.result = "ok"

\* a download that succeeds with exactly k pieces on online nodes, k < n
C35_Witness ==
    /\ dl.result = "ok"
    /\ dl.stopped = {}
    /\ dl.red.k = 2
    /\ Cardinality(dl.online) = dl.red.k
    /\ CalcNeededNodes(dl.red) > dl.red.k

(***************************************************************************)
(* Properties of the storage node's space accounting                       *)
(***************************************************************************)
\* C36: the live total that RecalculateSpaceUsedLive saves is the result
\* of the iteration plus half of the change the live total underwent during
\* the iteration, and the result of the iteration when the live total did
\* not change.
C36_Estimate ==
    live.last.done =>
        live.last.saved =
            live.last.new + GoDiv(live.last.ended - live.last.started, 2)

(***************************************************************************)
(* Properties of checker and repairer on the same segment                  *)
(***************************************************************************)
\* C37: for every redundancy and every missing set, a segment the checker
\* classifies injured and enqueues is one the repairer neither rejects as
\* irreparable nor skips as not needing repair, and a segment the checker
\* records as irreparable is one the repairer rejects as irreparable.
C37_SameVerdict ==
    cls.repairer # "unseen" =>
        /\ cls.checker = "enqueued" => cls.repairer = "repairs"
        /\ cls.checker = "irreparable" => cls.repairer = "irreparable"

\* both have seen a segment with exactly k healthy pieces, k < r, which the
\* checker recorded as irreparable
C37_Witness ==
    /\ cls.checker = "irreparable"
    /\ cls.repairer = "irreparable"
    /\ cls.numPieces - cls.numMissing = cls.red.k
    /\ cls.numMissing > 0

(***************************************************************************)
(* Properties of the erasure client's uploads under cancellation           *)
(***************************************************************************)
\* C38: in Put and Repair, however the end of an upload falls against the
\* long-tail cancellation, every piece counted as successful carries a piece
\* hash: no returned slot has a node without a hash, and an upload that was
\* cancelled before its commit is never counted as a success.
C38_HashOfSuccess ==
    /\ [][CollectStep =>
            \A i \in ec'.got \ ec.got :
                ec.g[i].how = "cancelled" => ec'.count = ec.count]_vars
    /\ []((ec.op \in {"put", "repair"} /\ ec.pc = "done"
                /\ ec.result = "ok") =>
            \A i \in EcSlots :
                ec.retNodes[i] # NoNode => i \in ec.retHashes)

(***************************************************************************)
(* Properties of the order sender                                          *)
(***************************************************************************)
\* C40: Sender.runOnce always terminates: the settle goroutines and the
\* batch handler never wait for each other for ever, also with more
\* responses than the channel holds and when Archive returns an error in
\* the middle of a run; when runOnce returns no goroutine of it is left.
C40_Terminates ==
    /\ <>(snd.main = "returned")
    /\ [](snd.main = "returned" =>
            \/ snd.handler.pc = "none"
            \/ /\ snd.handler.pc = "done"
               /\ snd.requests = [len |-> 0, closed |-> TRUE]
               /\ \A s \in Sats : snd.settle[s].pc \in {"none", "done"})

\* a run that returned after Archive failed while settle goroutines had
\* more requests to send than the channel holds
C40_Witness ==
    /\ snd.main = "returned"
    /\ snd.handler.err
    /\ snd.sent > 2 * BatchSize
    /\ \A s \in Sats : snd.settle[s] = [pc |-> "done", left |-> 0]

====
